---- MODULE Spec2Model ----
(***************************************************************************)
(* Model of the process supervision and state-synchronisation core of      *)
(* syncthingers (Windows build): SyncthingProcess (src/src/process.rs),    *)
(* AppState (src/src/app_state.rs), the exit callback                      *)
(* (src/src/process_monitor.rs), the tray consumer loop and the menu       *)
(* handlers (src/src/tray_ui.rs) and the start-up sequence of main         *)
(* (src/src/main.rs).                                                      *)
(*                                                                         *)
(* Every AppState method runs with the AppState mutex held by its caller,  *)
(* so a method body is one atomic step between the caller's Acquire and    *)
(* Release steps.  What the operating system decides (whether the process  *)
(* table query works, whether a kill is denied, whether a spawn works) is  *)
(* drawn nondeterministically by the step that runs the method.            *)
(***************************************************************************)
EXTENDS Integers, Sequences, FiniteSets, TLC

\* Number of process ids the operating system hands out (no pid is reused).
MaxPid == 2
\* Bound on the events in flight in the (unbounded) mpsc channel: a call is
\* taken up only when the events it may send still fit.
MaxChan == 2

Pids == 1..MaxPid

\* Option<T>: None is the empty tuple, Some(x) the one-element tuple.
None == <<>>
Some(x) == <<x>>
IsSome(o) == o # <<>>
Unwrap(o) == o[1]

Min(S) == CHOOSE x \in S : \A y \in S : x <= y

(***************************************************************************)
(* Executable paths.  ConfigPath is config.syncthing_path; UpperPath is    *)
(* the same file spelled in another case (a foreign instance of the        *)
(* daemon); AltPath is another executable with the same base name.         *)
(***************************************************************************)
ConfigPath == "c:/st/syncthing.exe"
UpperPath == "C:/ST/SYNCTHING.EXE"
AltPath == "d:/alt/syncthing.exe"
Paths == {ConfigPath, UpperPath, AltPath}
\* The paths a process not spawned by the application may run.
ExtPaths == {UpperPath, AltPath}

\* str::to_lowercase on the strings of the model.
to_lowercase(s) ==
    CASE s = "C:/ST/SYNCTHING.EXE" -> "c:/st/syncthing.exe"
      [] s = "SYNCTHING.EXE" -> "syncthing.exe"
      [] OTHER -> s

\* Path::file_name on the paths of the model ("" when there is none).
file_name(p) ==
    CASE p = "c:/st/syncthing.exe" -> "syncthing.exe"
      [] p = "C:/ST/SYNCTHING.EXE" -> "SYNCTHING.EXE"
      [] p = "d:/alt/syncthing.exe" -> "syncthing.exe"
      [] OTHER -> ""

Policies == {"CloseAll", "CloseManaged", "DontClose"}
Events == {"Started", "Exited", "StateChanged"}
SpawnOutcomes == {"ok", "job_fail", "spawn_fail", "assign_fail"}

(***************************************************************************)
(* SyncthingProcess.  child is the owned Child (named by its pid), pid the *)
(* recorded process id, job_handle whether a job object is held,           *)
(* monitor_handle the ProcessMonitorHandle (named by the pid it waits      *)
(* for), app_state whether a Weak<Mutex<AppState>> was given.              *)
(***************************************************************************)
new(path, app_state) ==
    [child |-> None, started_by_app |-> FALSE, syncthing_path |-> path,
     pid |-> None, job_handle |-> FALSE, monitor_handle |-> None,
     app_state |-> app_state]

(***************************************************************************)
(* The world a method acts on: AppState's fields (sp = syncthing_process,  *)
(* sender = process_state_sender is Some), the channel, the process table  *)
(* (procs[p] is "free", "gone" or the path pid p runs), the outcomes the   *)
(* operating system will give (q: one boolean per process-table query, in  *)
(* order; denied: the pids whose taskkill is denied) and what the method   *)
(* did so far (kills: pids whose termination was requested, sent: events   *)
(* sent, flips: changes of sp between None and Some, warn: a warning was   *)
(* logged, qfail: a query failed, spawned: pids spawned), the exit waits    *)
(* registered with the operating system (waits), whether a registration    *)
(* succeeds (reg) and the argument of the call (arg).                      *)
(***************************************************************************)
Live(procs) == {p \in Pids : procs[p] \in Paths}

\* Whether the next process-table query works.
QueryOk(w) == w.q = <<>> \/ Head(w.q)

\* wmic process where name='<process_name>' (WQL compares without case).
enumerate_processes_by_name(w, process_name) ==
    IF QueryOk(w)
    THEN [w |-> [w EXCEPT !.q = IF @ = <<>> THEN @ ELSE Tail(@), !.asked = @ + 1],
          ok |-> TRUE,
          list |-> {p \in Live(w.procs) :
                      to_lowercase(file_name(w.procs[p])) = to_lowercase(process_name)}]
    ELSE [w |-> [w EXCEPT !.q = Tail(@), !.qfail = TRUE, !.asked = @ + 1],
          ok |-> FALSE, list |-> {}]

BaseNameMatches(e, exe_path) == e.list

\* The listed processes whose path is exe_path, compared in lower case.
PathMatches(e, exe_path) ==
    {p \in e.list : to_lowercase(e.w.procs[p]) = to_lowercase(exe_path)}

\* register_process_exit_monitor: RegisterWaitForSingleObject for pid.
register_process_exit_monitor(w, pid) ==
    IF w.reg THEN [w EXCEPT !.waits[pid] = @ + 1] ELSE [w EXCEPT !.regfail = TRUE]

\* The monitor_handle a handle holds after trying to register a wait for pid.
monitor_for(w, app_state, pid, old) ==
    IF app_state /\ w.reg THEN Some(pid) ELSE old

DropKeepsWait(w, monitor_handle) == w

\* ProcessMonitorHandle::drop: UnregisterWait.
drop(w, monitor_handle) ==
    IF IsSome(monitor_handle)
    THEN [w EXCEPT !.waits[Unwrap(monitor_handle)] = @ - 1]
    ELSE w

\* start / detect_process, "if let Some(app_state_weak)": an exit wait for
\* pid is registered and on success replaces the one the handle held (old).
monitored(w, app_state, old, pid) ==
    IF ~app_state THEN w
    ELSE IF w.reg THEN register_process_exit_monitor(drop(w, old), pid)
    ELSE register_process_exit_monitor(w, pid)

FirstMatchAsManaged(e, exe_path, app_state) ==
    IF ~e.ok THEN [w |-> e.w, res |-> "Err", proc |-> None]
    ELSE IF PathMatches(e, exe_path) = {} THEN [w |-> e.w, res |-> "Ok", proc |-> None]
    ELSE [w |-> monitored(e.w, app_state, None, Min(PathMatches(e, exe_path))),
          res |-> "Ok",
          proc |-> Some([child |-> None, started_by_app |-> TRUE,
                         syncthing_path |-> exe_path,
                         pid |-> Some(Min(PathMatches(e, exe_path))),
                         job_handle |-> FALSE,
                         monitor_handle |->
                           monitor_for(e.w, app_state, Min(PathMatches(e, exe_path)), None),
                         app_state |-> app_state])]

\* detect_process, the loop over the listing e: the first match is returned.
first_match(e, exe_path, app_state) ==
    IF ~e.ok THEN [w |-> e.w, res |-> "Err", proc |-> None]
    ELSE IF PathMatches(e, exe_path) = {} THEN [w |-> e.w, res |-> "Ok", proc |-> None]
    ELSE [w |-> monitored(e.w, app_state, None, Min(PathMatches(e, exe_path))),
          res |-> "Ok",
          proc |-> Some([child |-> None, started_by_app |-> FALSE,
                         syncthing_path |-> exe_path,
                         pid |-> Some(Min(PathMatches(e, exe_path))),
                         job_handle |-> FALSE,
                         monitor_handle |->
                           monitor_for(e.w, app_state, Min(PathMatches(e, exe_path)), None),
                         app_state |-> app_state])]

\* SyncthingProcess::detect_process
detect_process(w, exe_path, external_only, app_state) ==
    IF file_name(exe_path) = "" THEN [w |-> w, res |-> "Ok", proc |-> None]
    ELSE first_match(enumerate_processes_by_name(w, file_name(exe_path)),
                     exe_path, app_state)

\* TerminateJobObject / Child::kill on a process the application owns.
kill_owned(w, p) ==
    [w EXCEPT !.kills = @ \cup {p},
              !.procs = [@ EXCEPT ![p] = IF @ \in Paths THEN "gone" ELSE @]]

\* taskkill /PID p /F for every p of ps; the result is ignored by the caller.
taskkill(w, ps) ==
    [w EXCEPT !.kills = @ \cup ps,
              !.procs = [p \in Pids |->
                          IF p \in ps /\ p \notin w.denied /\ @[p] \in Paths
                          THEN "gone" ELSE @[p]]]

\* stop, "Standard child process termination": kill the child, drop it.
kill_child(w, h) ==
    [w |-> IF IsSome(h.child) THEN kill_owned(w, Unwrap(h.child)) ELSE w,
     h |-> [h EXCEPT !.child = None], res |-> "Ok"]

\* stop, the branch for an external process: taskkill every listed process
\* whose path is the handle's.
stop_by_path(e, h) ==
    IF ~e.ok THEN [w |-> e.w, h |-> h, res |-> "Err"]
    ELSE kill_child(taskkill(e.w, PathMatches(e, h.syncthing_path)), h)

\* The file name stop() looks for.
stop_filename(h) ==
    IF file_name(h.syncthing_path) = "" THEN "syncthing.exe"
    ELSE file_name(h.syncthing_path)

\* SyncthingProcess::stop
stop(w, h) ==
    IF h.job_handle
    THEN kill_child(IF IsSome(h.pid) THEN kill_owned(w, Unwrap(h.pid)) ELSE w,
                    [h EXCEPT !.job_handle = FALSE])
    ELSE IF h.child = None /\ ~h.started_by_app
    THEN stop_by_path(enumerate_processes_by_name(w, stop_filename(h)), h)
    ELSE kill_child(w, h)

\* is_running, the external arm: detect_process(..).map(is_some).unwrap_or(false)
found(d) ==
    [w |-> IF IsSome(d.proc) THEN drop(d.w, Unwrap(d.proc).monitor_handle) ELSE d.w,
     ret |-> d.res = "Ok" /\ IsSome(d.proc)]

\* SyncthingProcess::is_running
is_running(w, h) ==
    IF IsSome(h.child) /\ h.started_by_app
    THEN [w |-> w, ret |-> w.procs[Unwrap(h.child)] \in Paths]
    ELSE IF h.child = None /\ ~h.started_by_app
    THEN found(detect_process(w, h.syncthing_path, FALSE, h.app_state))
    ELSE [w |-> w, ret |-> FALSE]

FreePids(w) == {p \in Pids : w.procs[p] = "free"}

\* Command::spawn: a new process running path.
spawn(w, path) ==
    [w EXCEPT !.procs = [@ EXCEPT ![Min(FreePids(w))] = path],
              !.spawned = @ \cup {Min(FreePids(w))}]

StartWithoutPid(w, h, outcome) ==
    IF outcome = "spawn_fail" \/ FreePids(w) = {} THEN [w |-> w, h |-> h, res |-> "Err"]
    ELSE [w |-> spawn(w, h.syncthing_path),
          h |-> [h EXCEPT !.child = Some(Min(FreePids(w))), !.started_by_app = TRUE],
          res |-> "Ok"]

\* SyncthingProcess::start (Windows): job object, spawn, assign, monitor.
start(w, h, outcome) ==
    IF outcome = "job_fail" THEN [w |-> w, h |-> h, res |-> "Err"]
    ELSE IF outcome = "spawn_fail" \/ FreePids(w) = {} THEN [w |-> w, h |-> h, res |-> "Err"]
    ELSE IF outcome = "assign_fail" THEN [w |-> spawn(w, h.syncthing_path), h |-> h, res |-> "Err"]
    ELSE [w |-> monitored(spawn(w, h.syncthing_path), h.app_state, h.monitor_handle,
                          Min(FreePids(w))),
          h |-> [h EXCEPT !.child = Some(Min(FreePids(w))), !.started_by_app = TRUE,
                          !.pid = Some(Min(FreePids(w))), !.job_handle = TRUE,
                          !.monitor_handle =
                             monitor_for(w, h.app_state, Min(FreePids(w)), @)],
          res |-> "Ok"]

(***************************************************************************)
(* AppState                                                                *)
(***************************************************************************)
\* Sender::send on process_state_sender, when one is registered.
send(w, event) ==
    IF w.sender
    THEN [w EXCEPT !.chan = Append(@, event), !.sent = @ + 1]
    ELSE w

\* The handle self.syncthing_process held is dropped.
drop_tracked(w) ==
    IF IsSome(w.sp) THEN drop(w, Unwrap(w.sp).monitor_handle) ELSE w

\* An assignment to self.syncthing_process: the value it held is dropped.
assign(w, v) ==
    [drop_tracked(w) EXCEPT !.sp = v,
                            !.flips = IF IsSome(w.sp) # IsSome(v) THEN @ + 1 ELSE @]

AttachNeedsMonitor(d) ==
    IF d.res = "Err" \/ d.w.regfail
    THEN [w |-> [d.w EXCEPT !.warn = TRUE], res |-> "Err", ret |-> FALSE]
    ELSE IF IsSome(d.proc) THEN [w |-> assign(d.w, d.proc), res |-> "Ok", ret |-> TRUE]
    ELSE [w |-> d.w, res |-> "Ok", ret |-> FALSE]

\* AppState::new, the match on the detection d: the handle or None.
new_tracks(d) == IF d.res = "Ok" THEN d.proc ELSE None

\* detect_and_attach_external, the match on the detection d.
attach(d) ==
    IF d.res = "Err" THEN [w |-> [d.w EXCEPT !.warn = TRUE], res |-> "Err", ret |-> FALSE]
    ELSE IF IsSome(d.proc) THEN [w |-> assign(d.w, d.proc), res |-> "Ok", ret |-> TRUE]
    ELSE [w |-> d.w, res |-> "Ok", ret |-> FALSE]

\* AppState::detect_and_attach_external
detect_and_attach_external(w) ==
    attach(detect_process(w, ConfigPath, TRUE, FALSE))

ClearsWithoutEvent(r) ==
    IF r.ret THEN [w |-> r.w, ret |-> TRUE]
    ELSE [w |-> assign(r.w, None), ret |-> FALSE]

\* syncthing_running, a process is tracked: r is what is_running said.
tracked_running(r) ==
    IF r.ret THEN [w |-> r.w, ret |-> TRUE]
    ELSE [w |-> send(assign(r.w, None), "StateChanged"), ret |-> FALSE]

DetectionErrorMeansRunning(a) ==
    IF a.res = "Err" THEN [w |-> [a.w EXCEPT !.warn = TRUE], ret |-> TRUE]
    ELSE IF IsSome(a.w.sp) THEN [w |-> send(a.w, "StateChanged"), ret |-> TRUE]
    ELSE [w |-> a.w, ret |-> FALSE]

\* syncthing_running, nothing is tracked: a is what the detection did.
detected_running(a) ==
    IF a.res = "Err" THEN [w |-> [a.w EXCEPT !.warn = TRUE], ret |-> FALSE]
    ELSE IF IsSome(a.w.sp) THEN [w |-> send(a.w, "StateChanged"), ret |-> TRUE]
    ELSE [w |-> a.w, ret |-> FALSE]

\* syncthing_running returns r.ret; the world keeps what it said last.
told(r) == [w |-> [r.w EXCEPT !.said = IF r.ret THEN "true" ELSE "false"], ret |-> r.ret]

\* AppState::syncthing_running
syncthing_running(w) ==
    IF IsSome(w.sp) THEN told(tracked_running(is_running(w, Unwrap(w.sp))))
    ELSE told(detected_running(detect_and_attach_external(w)))

StartedAnnouncesFailure(s) ==
    IF s.res = "Err" THEN [w |-> send(s.w, "Started"), res |-> "Err"]
    ELSE [w |-> send(assign(s.w, Some(s.h)), "Started"), res |-> "Ok"]

StartedAsDetected(s) ==
    IF s.res = "Err" THEN [w |-> s.w, res |-> "Err"]
    ELSE [w |-> send(assign(s.w, Some([s.h EXCEPT !.started_by_app = FALSE])), "Started"),
          res |-> "Ok"]

\* start_syncthing, after process.start(args): s is its result.
started(s) ==
    IF s.res = "Err" THEN [w |-> s.w, res |-> "Err"]
    ELSE [w |-> send(assign(s.w, Some(s.h)), "Started"), res |-> "Ok"]

StartAnyway(r, outcome) == started(start(r.w, new(ConfigPath, FALSE), outcome))

\* start_syncthing, after the check r = self.syncthing_running().
start_unless_running(r, outcome) ==
    IF r.ret THEN [w |-> r.w, res |-> "Ok"]
    ELSE started(start(r.w, new(ConfigPath, FALSE), outcome))

\* AppState::start_syncthing
start_syncthing(w, outcome) ==
    start_unless_running(syncthing_running(w), outcome)

StopForgetsToClear(s) ==
    IF s.res = "Err" THEN [w |-> s.w, res |-> "Err"]
    ELSE [w |-> send([s.w EXCEPT !.sp = Some(s.h)], "Exited"), res |-> "Ok"]

StopSendsNothing(s) ==
    IF s.res = "Err" THEN [w |-> s.w, res |-> "Err"]
    ELSE [w |-> assign(s.w, None), res |-> "Ok"]

\* stop_syncthing, after process.stop(): s is its result.
stopped(s) ==
    IF s.res = "Err" THEN [w |-> [s.w EXCEPT !.sp = Some(s.h)], res |-> "Err"]
    ELSE [w |-> assign(send([s.w EXCEPT !.sp = Some(s.h)], "Exited"), None),
          res |-> "Ok"]

\* AppState::stop_syncthing
stop_syncthing(w) ==
    IF IsSome(w.sp) THEN stopped(stop(w, Unwrap(w.sp)))
    ELSE [w |-> assign(w, None), res |-> "Ok"]

\* stop_external_syncthing_processes: proc.stop() is done, proc is dropped.
stopped_and_dropped(s) ==
    [w |-> drop(s.w, s.h.monitor_handle), res |-> s.res]

\* stop_external_syncthing_processes, the match on the detection d.
stop_detected(d) ==
    IF d.res = "Err" THEN [w |-> d.w, res |-> "Err"]
    ELSE IF IsSome(d.proc) THEN stopped_and_dropped(stop(d.w, Unwrap(d.proc)))
    ELSE [w |-> d.w, res |-> "Ok"]

\* AppState::stop_external_syncthing_processes
stop_external_syncthing_processes(w) ==
    stop_detected(detect_process(w, ConfigPath, TRUE, FALSE))

\* stop_all_syncthing_processes: the result b of the external stop is logged.
best_effort(b) ==
    [w |-> IF b.res = "Err" THEN [b.w EXCEPT !.warn = TRUE] ELSE b.w, res |-> "Ok"]

StopAllSkipsExternal(w) ==
    [w |-> stop_syncthing(w).w, res |-> "Ok"]

\* AppState::stop_all_syncthing_processes
stop_all_syncthing_processes(w) ==
    best_effort(stop_external_syncthing_processes(stop_syncthing(w).w))

StopManagedIgnoresOwnership(w) ==
    IF IsSome(w.sp) THEN stop_syncthing(w) ELSE [w |-> w, res |-> "Ok"]

\* AppState::stop_managed_syncthing_processes
stop_managed_syncthing_processes(w) ==
    IF IsSome(w.sp)
    THEN IF Unwrap(w.sp).started_by_app THEN stop_syncthing(w)
         ELSE [w |-> w, res |-> "Ok"]
    ELSE [w |-> w, res |-> "Ok"]

\* AppState::handle_exit_closure
handle_exit_closure(w, policy) ==
    CASE policy = "CloseAll" -> stop_all_syncthing_processes(w)
      [] policy = "CloseManaged" -> stop_managed_syncthing_processes(w)
      [] OTHER -> [w |-> w, res |-> "Ok"]

RedetectionErrorClears(d) ==
    IF d.proc = None THEN send(assign(d.w, None), "Exited")
    ELSE drop(d.w, Unwrap(d.proc).monitor_handle)

\* handle_process_exit, an external process is tracked: d is the detection.
redetected(d) ==
    IF d.res = "Err" THEN [d.w EXCEPT !.warn = TRUE]
    ELSE IF d.proc = None THEN send(assign(d.w, None), "Exited")
    ELSE drop(d.w, Unwrap(d.proc).monitor_handle)

HandleExitClearsAnyway(w, pid) ==
    send(assign(w, None), "Exited")

\* AppState::handle_process_exit
handle_process_exit(w, pid) ==
    IF IsSome(w.sp) /\ Unwrap(w.sp).pid = Some(pid)
    THEN send(assign(w, None), "Exited")
    ELSE IF IsSome(w.sp) /\ ~Unwrap(w.sp).started_by_app
    THEN redetected(detect_process(w, ConfigPath, TRUE, FALSE))
    ELSE w

CallbackUnwrapsOwner(w, pid, owner_alive) ==
    IF owner_alive THEN [w |-> handle_process_exit(w, pid), res |-> "handled"]
    ELSE [w |-> w, res |-> "failed"]

\* process_exit_callback: context.app_state.upgrade(), lock, handle_process_exit.
process_exit_callback(w, pid, owner_alive) ==
    IF owner_alive THEN [w |-> handle_process_exit(w, pid), res |-> "handled"]
    ELSE [w |-> w, res |-> "noop"]

\* check_and_autostart_syncthing, after the check r = self.syncthing_running().
autostart_unless_running(r, outcome) ==
    IF r.ret THEN [w |-> r.w, res |-> "Ok"]
    ELSE start_syncthing(r.w, outcome)

AutostartIgnoresConfig(w, auto_launch, outcome) ==
    autostart_unless_running(syncthing_running(w), outcome)

\* AppState::check_and_autostart_syncthing
check_and_autostart_syncthing(w, auto_launch, outcome) ==
    IF ~auto_launch THEN [w |-> w, res |-> "Ok"]
    ELSE autostart_unless_running(syncthing_running(w), outcome)

(***************************************************************************)
(* TrayUi: the menu handlers and the consumer's view of AppState           *)
(***************************************************************************)
\* process_menu_action, StartStop: r is what syncthing_running said.
start_or_stop(r, outcome) ==
    IF r.ret THEN stop_syncthing(r.w) ELSE start_syncthing(r.w, outcome)

ExitOnlyWhenQuiet(c) ==
    [w |-> c.w, res |-> c.res, exit |-> c.res = "Ok" /\ ~c.w.warn]

\* process_menu_action, Exit: c is what handle_exit_closure returned.
log_and_exit(c) ==
    [w |-> IF c.res = "Err" THEN [c.w EXCEPT !.warn = TRUE] ELSE c.w,
     res |-> "Ok", exit |-> TRUE]

\* TrayUi::process_menu_action (StartStop and Exit)
process_menu_action(w, action, policy, outcome) ==
    IF action = "StartStop"
    THEN [w |-> start_or_stop(syncthing_running(w), outcome).w,
          res |-> start_or_stop(syncthing_running(w), outcome).res, exit |-> FALSE]
    ELSE log_and_exit(handle_exit_closure(w, policy))

\* TrayUi::get_current_process_state
get_current_process_state(sp) ==
    IF IsSome(sp) THEN "Running" ELSE "Stopped"

(***************************************************************************)
(* Config (config.rs).  A JSON value is a record of its type and content,  *)
(* a JSON object a function from its keys, and the configuration file is   *)
(* missing, not JSON ("garbage"), or holds an array or an object.          *)
(***************************************************************************)
JNull == [t |-> "null", s |-> "", l |-> <<>>, b |-> FALSE]
JStr(x) == [t |-> "string", s |-> x, l |-> <<>>, b |-> FALSE]
JArr(x) == [t |-> "array", s |-> "", l |-> x, b |-> FALSE]
JBool(x) == [t |-> "bool", s |-> "", l |-> <<>>, b |-> x]
JNum == [t |-> "number", s |-> "", l |-> <<>>, b |-> FALSE]

NoKeys == [k \in {} |-> JNull]
MissingFile == [kind |-> "missing", obj |-> NoKeys]
JObject(o) == [kind |-> "object", obj |-> o]

\* struct Config: the fields serde reads and writes.
Fields ==
    {"log_level", "syncthing_path", "web_ui_url", "startup_args",
     "process_closure_behavior", "auto_launch_internal"}

\* The JSON type serde accepts for the field k.
FieldType(k) ==
    CASE k = "startup_args" -> "array"
      [] k = "auto_launch_internal" -> "bool"
      [] OTHER -> "string"

\* #[serde(rename = ..)] on ProcessClosureBehavior.
closure_name(b) ==
    CASE b = "CloseAll" -> "close_all"
      [] b = "CloseManaged" -> "close_managed"
      [] OTHER -> "dont_close"

\* The variant a serialized name stands for (None: unknown variant).
closure_of(name) ==
    CASE name = "close_all" -> Some("CloseAll")
      [] name = "close_managed" -> Some("CloseManaged")
      [] name = "dont_close" -> Some("DontClose")
      [] OTHER -> None

\* impl Default for Config; on_path is what find_syncthing_in_path returned.
default_config(on_path) ==
    [log_level |-> "info",
     syncthing_path |-> IF IsSome(on_path) THEN Unwrap(on_path)
                        ELSE "C:/Program Files/Syncthing/syncthing.exe",
     web_ui_url |-> "http://localhost:8384",
     startup_args |-> <<"-no-browser">>,
     process_closure_behavior |-> "CloseManaged",
     auto_launch_internal |-> FALSE]

\* serde_json::to_value(config) / to_string_pretty: the object written.
to_value(c) ==
    [k \in Fields |->
       CASE k = "log_level" -> JStr(c.log_level)
         [] k = "syncthing_path" -> JStr(c.syncthing_path)
         [] k = "web_ui_url" -> JStr(c.web_ui_url)
         [] k = "startup_args" -> JArr(c.startup_args)
         [] k = "process_closure_behavior" -> JStr(closure_name(c.process_closure_behavior))
         [] OTHER -> JBool(c.auto_launch_internal)]

\* Whether serde can read the field k out of the object o: the key is there
\* with a value of the field's type; process_closure_behavior may be absent
\* (#[serde(default)]) and must name a variant when present.
Readable(o, k) ==
    IF k \notin DOMAIN o THEN k = "process_closure_behavior"
    ELSE /\ o[k].t = FieldType(k)
         /\ k = "process_closure_behavior" => IsSome(closure_of(o[k].s))

\* serde_json::from_value::<Config>: unknown keys are ignored.
from_value(v) ==
    IF v.kind # "object" \/ \E k \in Fields : ~Readable(v.obj, k)
    THEN [res |-> "Err", config |-> None]
    ELSE [res |-> "Ok",
          config |-> Some([log_level |-> v.obj["log_level"].s,
                           syncthing_path |-> v.obj["syncthing_path"].s,
                           web_ui_url |-> v.obj["web_ui_url"].s,
                           startup_args |-> v.obj["startup_args"].l,
                           process_closure_behavior |->
                             IF "process_closure_behavior" \in DOMAIN v.obj
                             THEN Unwrap(closure_of(v.obj["process_closure_behavior"].s))
                             ELSE "CloseManaged",
                           auto_launch_internal |-> v.obj["auto_launch_internal"].b])]

\* The keys of the file's object that hold a value other than null.
Given(existing) ==
    IF existing.kind = "object"
    THEN {k \in DOMAIN existing.obj : existing.obj[k].t # "null"}
    ELSE {}

\* merge_with_defaults, the loop: the defaults, overwritten key by key.
merged_value(existing, given, default_value) ==
    JObject([k \in Fields \cup given |->
               IF k \in given THEN existing.obj[k] ELSE default_value[k]])

MergeTakesDefaults(existing, defaults) == from_value(JObject(to_value(defaults)))

\* Config::merge_with_defaults
merge_with_defaults(existing, defaults) ==
    from_value(merged_value(existing, Given(existing), to_value(defaults)))

\* Config::check_missing_fields
check_missing_fields(json_value) ==
    /\ json_value.kind = "object"
    /\ \/ "process_closure_behavior" \notin DOMAIN json_value.obj
       \/ "auto_launch_internal" \notin DOMAIN json_value.obj

\* Config::save_to_file after r produced a Config: File::create, write_all.
saved(file, r, writable) ==
    IF r.res = "Err" THEN [file |-> file, res |-> "Err", config |-> None]
    ELSE IF ~writable THEN [file |-> file, res |-> "Err", config |-> None]
    ELSE [file |-> JObject(to_value(Unwrap(r.config))), res |-> "Ok", config |-> r.config]

\* load_or_create, the file exists and is JSON: no file is written.
parsed(file, r) == [file |-> file, res |-> r.res, config |-> r.config]

\* Config::load_or_create
load_or_create(file, defaults, writable) ==
    IF file.kind = "missing"
    THEN saved(file, [res |-> "Ok", config |-> Some(defaults)], writable)
    ELSE IF file.kind = "garbage" THEN [file |-> file, res |-> "Err", config |-> None]
    ELSE IF check_missing_fields(file)
    THEN saved(file, merge_with_defaults(file, defaults), writable)
    ELSE parsed(file, from_value(file))

(***************************************************************************)
(* State                                                                   *)
(***************************************************************************)
VARIABLES
    syncthing_process,     \* AppState.syncthing_process
    process_state_sender,  \* AppState.process_state_sender is Some
    policy,                \* config.process_closure_behavior, once it was read
    chan,                  \* ProcessEvents sent and not yet received
    procs,                 \* the operating system's process table
    main_pc,               \* where main() is
    lock,                  \* holder of the AppState mutex
    pc,                    \* per calling thread: position
    last,                  \* what the method in progress did (until Release)
    prev,                  \* the call before: "stop_ok", "poll_saw_exit", "said_true", ..
    exited,                \* std::process::exit was called
    cpc,                   \* consumer thread: position
    last_state,            \* consumer thread: last_state
    derived,               \* consumer thread: new_state of the last iteration
    handled,               \* consumer thread: what the last iteration received
    tray_state,            \* TrayUi.state
    tray_lock,             \* holder of the Mutex<TrayUi>
    waits,                 \* per pid: registered exit waits (ProcessMonitorHandle)
    seen,                  \* the process table as the last call on a handle left it
    pending,               \* pids whose exit callback is queued and has not run
    owner,                 \* the Arc<Mutex<AppState>> has a strong reference
    config_file,           \* the configuration file on disk
    loaded,                \* what the last Config::load_or_create found and returned
    exe_name,              \* the argument normalize_exe_name is called with
    normalized             \* what that call did, once it was made

vars == <<syncthing_process, process_state_sender, policy, chan, procs, main_pc,
          lock, pc, last, prev, exited, cpc, last_state, derived, handled,
          tray_state, tray_lock, waits, seen, pending, owner, config_file, loaded,
          exe_name, normalized>>

callback_vars == <<pending, owner>>

\* The threads that call into AppState once the tray exists (menu clicks
\* through handle_menu_action_static, exit callbacks, direct callers).
Callers == {"t1", "t2"}
Free == "free"
\* The mutex is poisoned: lock() returns Err to every caller.
Poisoned == "poisoned"

Q1 == {<<a>> : a \in BOOLEAN}
Q2 == {<<a, b>> : a \in BOOLEAN, b \in BOOLEAN}
Q3 == {<<a, b, c>> : a \in BOOLEAN, b \in BOOLEAN, c \in BOOLEAN}

\* The live processes running the configured executable (any spelling).
Matching(t) ==
    {p \in Live(t) : to_lowercase(t[p]) = to_lowercase(ConfigPath)}

World(q, denied) ==
    [sp |-> syncthing_process, sender |-> process_state_sender, chan |-> chan,
     procs |-> procs, q |-> q, denied |-> denied, kills |-> {}, sent |-> 0,
     flips |-> 0, warn |-> FALSE, qfail |-> FALSE, spawned |-> {}, arg |-> 0,
     waits |-> waits, reg |-> TRUE, regfail |-> FALSE, said |-> "none",
     asked |-> 0]

Commit(w) ==
    /\ syncthing_process' = w.sp
    /\ chan' = w.chan
    /\ procs' = w.procs
    /\ waits' = w.waits

Outcome(name, w, ret) ==
    [op |-> name, pre |-> syncthing_process, ret |-> ret, sent |-> w.sent,
     kills |-> w.kills, flips |-> w.flips, warn |-> w.warn, qfail |-> w.qfail,
     spawned |-> w.spawned, arg |-> w.arg, regfail |-> w.regfail, said |-> w.said,
     asked |-> w.asked]

NoOutcome ==
    [op |-> "none", pre |-> None, ret |-> "none", sent |-> 0, kills |-> {},
     flips |-> 0, warn |-> FALSE, qfail |-> FALSE, spawned |-> {}, arg |-> 0,
     regfail |-> FALSE, said |-> "none",
     asked |-> 0]

\* No Config::load_or_create has been followed yet.
NotLoaded ==
    [res |-> "none", config |-> None, from |-> MissingFile, writable |-> FALSE]

\* The process core before AppState::new.
CoreInit ==
    /\ syncthing_process = None
    /\ process_state_sender = FALSE
    /\ policy = "unread"
    /\ chan = <<>>
    /\ procs = [p \in Pids |-> "free"]
    /\ main_pc = "new"
    /\ lock = Free
    /\ pc = [t \in Callers |-> "idle"]
    /\ last = NoOutcome
    /\ prev = "other"
    /\ exited = FALSE
    /\ cpc = "off"
    /\ last_state = "Stopped"
    /\ derived = "Stopped"
    /\ handled = "none"
    /\ tray_state = "Stopped"
    /\ tray_lock = Free
    /\ waits = [p \in Pids |-> 0]
    /\ seen = procs
    /\ pending = {}
    /\ owner = TRUE

\* main() loads the configuration before it builds the AppState; the
\* specifications of the process core start after that and draw the values
\* the core reads from the configuration where it reads them, so the file
\* and its loading are followed in ConfigSpec only.
Init ==
    /\ CoreInit
    /\ config_file = MissingFile
    /\ loaded = NotLoaded
    /\ exe_name = <<>>
    /\ normalized = None

consumer_vars == <<cpc, last_state, derived, handled, tray_state, tray_lock>>
caller_vars == <<lock, pc, last, prev>>
utils_vars == <<exe_name, normalized>>
\* What no thread of the running program writes: the configuration file as
\* it was loaded, and the call of utils.rs followed in UtilsSpec.
file_vars == <<config_file, loaded, utils_vars>>
config_vars == <<policy, file_vars>>

(***************************************************************************)
(* The operating system: other programs start and any process may exit.    *)
(***************************************************************************)
ExtSpawn ==
    /\ ~exited
    /\ \E path \in ExtPaths :
         LET free == {p \in Pids : procs[p] = "free"}
         IN  /\ free # {}
             /\ procs' = [procs EXCEPT ![Min(free)] = path]
    /\ UNCHANGED <<syncthing_process, process_state_sender, chan, main_pc, exited>>
    /\ UNCHANGED <<consumer_vars, caller_vars, config_vars, waits, seen>>
    /\ UNCHANGED callback_vars

ProcExit ==
    /\ ~exited
    /\ \E p \in Live(procs) : procs' = [procs EXCEPT ![p] = "gone"]
    /\ UNCHANGED <<syncthing_process, process_state_sender, chan, main_pc, exited>>
    /\ UNCHANGED <<consumer_vars, caller_vars, config_vars, waits, seen>>
    /\ UNCHANGED callback_vars

(***************************************************************************)
(* main(): AppState::new, check_and_autostart_syncthing, then TrayUi::new   *)
(* (detect_initial_state, register_process_state_sender, spawn of the      *)
(* consumer thread) with setup_tray_menu, after which main parks.          *)
(***************************************************************************)
MainNew ==
    /\ main_pc = "new"
    /\ \E q \in Q1 :
         LET d == detect_process(World(q, {}), ConfigPath, TRUE, FALSE)
         IN  /\ syncthing_process' = new_tracks(d)
             /\ waits' = d.w.waits
             /\ prev' = IF d.res = "Err" THEN "new_failed" ELSE "other"
    /\ main_pc' = "autostart"
    /\ UNCHANGED <<process_state_sender, chan, procs, exited, seen>>
    /\ UNCHANGED <<consumer_vars, config_vars, lock, pc, last>>
    /\ UNCHANGED callback_vars

\* config.auto_launch_internal is read here only, so the value the
\* configuration file gave is drawn here.
MainAutostart ==
    /\ main_pc = "autostart"
    /\ lock = Free
    /\ \E auto_launch_internal \in BOOLEAN, q \in Q2, outcome \in SpawnOutcomes :
         LET r == check_and_autostart_syncthing(World(q, {}), auto_launch_internal, outcome)
         IN  /\ Commit(r.w)
             /\ last' = Outcome("check_and_autostart_syncthing", r.w, r.res)
             /\ prev' = IF auto_launch_internal THEN "auto_launch" ELSE "no_auto_launch"
    /\ main_pc' = "tray"
    /\ UNCHANGED <<process_state_sender, exited, seen, lock, pc>>
    /\ UNCHANGED <<consumer_vars, config_vars>>
    /\ UNCHANGED callback_vars

MainTrayNew ==
    /\ main_pc = "tray"
    /\ lock = Free
    /\ \E q \in Q1 :
         LET r == syncthing_running(World(q, {}))
         IN  /\ Commit(r.w)
             /\ tray_state' = IF r.ret THEN "Running" ELSE "Stopped"
    /\ process_state_sender' = TRUE
    /\ cpc' = "init"
    /\ main_pc' = "park"
    /\ last' = NoOutcome
    /\ UNCHANGED <<exited, last_state, derived, handled, seen, lock, pc, prev>>
    /\ UNCHANGED config_vars
    /\ UNCHANGED <<callback_vars, tray_lock>>

(***************************************************************************)
(* Calling threads.  handle_menu_action_static and process_exit_callback   *)
(* lock the AppState mutex, run the method with the guard alive and drop   *)
(* the guard on return; a direct caller of an AppState method does the     *)
(* same through Arc<Mutex<AppState>>.                                      *)
(***************************************************************************)
\* The tray menu exists once setup_tray_menu has run.
MenuReady == main_pc = "park"

\* What a call may send at most: start_syncthing sends up to two events.
MaxSends(name) == IF name \in {"StartStop", "start_syncthing"} THEN 2 ELSE 1

\* app_state.lock(): the caller blocks until the mutex is free.
Acquire(t) ==
    /\ ~exited
    /\ MenuReady
    /\ pc[t] = "idle"
    /\ lock = Free
    /\ Len(chan) < MaxChan
    /\ lock' = t
    /\ pc' = [pc EXCEPT ![t] = "locked"]
    /\ UNCHANGED <<syncthing_process, process_state_sender, chan, procs, main_pc,
                   last, prev, exited>>
    /\ UNCHANGED <<consumer_vars, config_vars, waits, seen>>
    /\ UNCHANGED callback_vars

ReleasesWithTheCall(t) == Free

\* The holder of the mutex while the method called by t runs and returns.
GuardHeldBy(t) == t

\* Common part of the steps that run a method body under the guard.
Ran(t, name, w, ret) ==
    /\ Commit(w)
    /\ last' = Outcome(name, w, ret)
    /\ pc' = [pc EXCEPT ![t] = "done"]
    /\ lock' = GuardHeldBy(t)
    /\ UNCHANGED <<process_state_sender, main_pc, prev, seen>>
    /\ UNCHANGED <<consumer_vars, config_vars>>
    /\ UNCHANGED callback_vars

\* t holds the mutex and calls the method name.
Locked(t, name) ==
    /\ ~exited
    /\ pc[t] = "locked"
    /\ lock = t
    /\ Len(chan) + MaxSends(name) <= MaxChan

RunStartStop(t) ==
    /\ Locked(t, "StartStop")
    /\ \E q \in Q2, denied \in SUBSET Matching(procs), outcome \in SpawnOutcomes :
         LET r == process_menu_action(World(q, denied), "StartStop", policy, outcome)
         IN  Ran(t, "StartStop", r.w, r.res)
    /\ UNCHANGED exited

\* The Exit menu item.  config is never written and its closure policy is
\* read here only, so the value the configuration file gave is drawn here.
RunExit(t) ==
    /\ Locked(t, "Exit")
    /\ \E p \in Policies, q \in Q3, denied \in SUBSET Matching(procs) :
         LET r == process_menu_action(World(q, denied), "Exit", p, "ok")
         IN  /\ Commit(r.w)
             /\ last' = Outcome("Exit", r.w, r.res)
             /\ policy' = p
             /\ exited' = r.exit
             /\ pc' = [pc EXCEPT ![t] = IF r.exit THEN "exit" ELSE "done"]
    /\ UNCHANGED <<process_state_sender, main_pc, lock, prev, seen>>
    /\ UNCHANGED <<consumer_vars, file_vars>>
    /\ UNCHANGED callback_vars

RunStart(t) ==
    /\ Locked(t, "start_syncthing")
    /\ \E q \in Q1, outcome \in SpawnOutcomes :
         LET r == start_syncthing(World(q, {}), outcome)
         IN  Ran(t, "start_syncthing", r.w, r.res)
    /\ UNCHANGED exited

RunStop(t) ==
    /\ Locked(t, "stop_syncthing")
    /\ \E q \in Q1, denied \in SUBSET Matching(procs) :
         LET r == stop_syncthing(World(q, denied))
         IN  Ran(t, "stop_syncthing", r.w, r.res)
    /\ UNCHANGED exited

RunPoll(t) ==
    /\ Locked(t, "syncthing_running")
    /\ \E q \in Q1 :
         LET r == syncthing_running(World(q, {}))
         IN  Ran(t, "syncthing_running", r.w, IF r.ret THEN "true" ELSE "false")
    /\ UNCHANGED exited

\* process_exit_callback for a process that has exited.
RunExitCallback(t) ==
    /\ Locked(t, "handle_process_exit")
    /\ \E q \in Q1, pid \in Pids :
         /\ procs[pid] = "gone"
         /\ Ran(t, "handle_process_exit",
                handle_process_exit([World(q, {}) EXCEPT !.arg = pid], pid), "unit")
    /\ UNCHANGED exited

\* What is remembered of a call once its guard is dropped: a stop that
\* succeeded, or a poll or exit callback that cleared the handle of a tracked
\* process that has exited.
Remembered ==
    CASE last.op = "stop_syncthing" /\ last.ret = "Ok" -> "stop_ok"
      [] /\ last.op \in {"syncthing_running", "handle_process_exit"}
         /\ IsSome(last.pre)
         /\ procs[Unwrap(Unwrap(last.pre).pid)] = "gone"
         /\ syncthing_process = None ->
           IF last.op = "syncthing_running" THEN "poll_saw_exit"
           ELSE "callback_saw_exit"
      [] OTHER -> "other"

Release(t) ==
    /\ ~exited
    /\ pc[t] = "done"
    /\ lock' = Free
    /\ pc' = [pc EXCEPT ![t] = "idle"]
    /\ prev' = Remembered
    /\ last' = NoOutcome
    /\ UNCHANGED <<syncthing_process, process_state_sender, chan, procs, main_pc, exited>>
    /\ UNCHANGED <<consumer_vars, config_vars, waits, seen>>
    /\ UNCHANGED callback_vars

(***************************************************************************)
(* The consumer thread of TrayUi::start_monitoring_thread.                 *)
(***************************************************************************)
ConsumerInit ==
    /\ ~exited
    /\ cpc = "init"
    /\ lock \in {Free, Poisoned}
    /\ derived' = IF lock = Poisoned THEN "Stopped"
                  ELSE get_current_process_state(syncthing_process)
    /\ tray_state' = derived'
    /\ last_state' = derived'
    /\ cpc' = "recv"
    /\ UNCHANGED <<syncthing_process, process_state_sender, chan, procs, main_pc,
                   exited, handled>>
    /\ UNCHANGED <<caller_vars, config_vars, waits, seen>>
    /\ UNCHANGED <<callback_vars, tray_lock>>

AlwaysRerender(new_state) == "render"

EndAfterDerive(new_state) == IF new_state # last_state THEN "render" ELSE "ended"

\* if last_state.as_ref() != Some(&new_state.0) { .. render .. }
AfterDerive(new_state) == IF new_state # last_state THEN "render" ELSE "recv"

\* The new_state an event yields (Ok(event) arm).
StateForEvent(event, sp) ==
    CASE event = "Started" -> "Running"
      [] event = "Exited" -> "Stopped"
      [] OTHER -> get_current_process_state(sp)

ConsumerRecv ==
    /\ ~exited
    /\ cpc = "recv"
    /\ chan # <<>>
    /\ Head(chan) \in {"Started", "Exited"} \/ lock = Free
    /\ chan' = Tail(chan)
    /\ handled' = Head(chan)
    /\ derived' = StateForEvent(Head(chan), syncthing_process)
    /\ cpc' = AfterDerive(derived')
    /\ UNCHANGED <<syncthing_process, process_state_sender, procs, main_pc, exited,
                   last_state, tray_state>>
    /\ UNCHANGED <<caller_vars, config_vars, waits, seen>>
    /\ UNCHANGED <<callback_vars, tray_lock>>

\* recv_timeout elapsed with no event (Timeout arm).
ConsumerTimeout ==
    /\ ~exited
    /\ cpc = "recv"
    /\ chan = <<>>
    /\ process_state_sender
    /\ lock = Free
    /\ handled' = "Timeout"
    /\ derived' = get_current_process_state(syncthing_process)
    /\ cpc' = AfterDerive(derived')
    /\ UNCHANGED <<syncthing_process, process_state_sender, chan, procs, main_pc,
                   exited, last_state, tray_state>>
    /\ UNCHANGED <<caller_vars, config_vars, waits, seen>>
    /\ UNCHANGED <<callback_vars, tray_lock>>

\* set_state, recreate_tray_menu, last_state = Some(new_state.0)
ConsumerRender ==
    /\ ~exited
    /\ cpc = "render"
    /\ tray_state' = derived
    /\ last_state' = derived
    /\ cpc' = "recv"
    /\ handled' = "none"
    /\ UNCHANGED <<syncthing_process, process_state_sender, chan, procs, main_pc,
                   exited, derived>>
    /\ UNCHANGED <<caller_vars, config_vars, waits, seen>>
    /\ UNCHANGED <<callback_vars, tray_lock>>

Next ==
    \/ ExtSpawn
    \/ ProcExit
    \/ MainNew
    \/ MainAutostart
    \/ MainTrayNew
    \/ \E t \in Callers : Acquire(t)
    \/ \E t \in Callers : RunStartStop(t)
    \/ \E t \in Callers : RunExit(t)
    \/ \E t \in Callers : RunStart(t)
    \/ \E t \in Callers : RunStop(t)
    \/ \E t \in Callers : RunPoll(t)
    \/ \E t \in Callers : RunExitCallback(t)
    \/ \E t \in Callers : Release(t)
    \/ ConsumerInit
    \/ ConsumerRecv
    \/ ConsumerTimeout
    \/ ConsumerRender

Spec == Init /\ [][Next]_vars

(***************************************************************************)
(* The methods of SyncthingProcess, called on the handle that a slot of     *)
(* type Option<SyncthingProcess> holds (AppState.syncthing_process is such *)
(* a slot, and holds it here).  The app_state argument of new and of       *)
(* detect_process, None at every call AppState makes, takes both values    *)
(* here, so that exit waits are registered; a registration may fail (reg). *)
(***************************************************************************)
HandleWorld(q, denied, reg) == [World(q, denied) EXCEPT !.reg = reg]

\* A &mut self method changed the handle the slot holds in place.
in_place(s) == [s.w EXCEPT !.sp = Some(s.h)]

\* What the call before the one that returns now was, when it was an
\* is_running() and the process table has not changed since: what it
\* answered, and whether its query of the process table had failed.
Preceding ==
    CASE last.op = "is_running" /\ seen = procs /\ last.ret = "true" -> "said_true"
      [] last.op = "is_running" /\ seen = procs /\ last.ret = "false" /\ ~last.qfail
           -> "said_false"
      [] last.op = "is_running" /\ seen = procs /\ last.ret = "false" /\ last.qfail
           -> "failed_false"
      [] OTHER -> "other"

\* A call on the slot or on its handle returned.
Returned(name, w, ret) ==
    /\ ~exited
    /\ owner
    /\ Commit(w)
    /\ seen' = w.procs
    /\ last' = Outcome(name, w, ret)
    /\ prev' = Preceding
    /\ UNCHANGED <<process_state_sender, main_pc, lock, pc, exited>>
    /\ UNCHANGED <<consumer_vars, config_vars>>
    /\ UNCHANGED callback_vars

\* slot = Some(SyncthingProcess::new(path, app_state))
HandleNew ==
    /\ main_pc = "new"
    /\ \E app_state \in BOOLEAN :
         Returned("new", assign(World(<<>>, {}), Some(new(ConfigPath, app_state))), "unit")

\* A handle is built with new, started, and on success put into the slot.
HandleAttachStarted ==
    /\ FreePids(World(<<>>, {})) # {}
    /\ \E app_state \in BOOLEAN, reg \in BOOLEAN, outcome \in SpawnOutcomes :
         LET r == started(start(HandleWorld(<<>>, {}, reg),
                                new(ConfigPath, app_state), outcome))
         IN  Returned("attach_started", r.w, r.res)

\* A detected handle is put into the slot.
HandleAttachDetected ==
    /\ main_pc = "new"
    /\ \E q \in Q1, external_only \in BOOLEAN, app_state \in BOOLEAN, reg \in BOOLEAN :
         LET r == attach(detect_process(HandleWorld(q, {}, reg), ConfigPath,
                                        external_only, app_state))
         IN  Returned("attach_detected", r.w, r.res)

\* handle.start(args)
HandleStart ==
    /\ IsSome(syncthing_process)
    /\ FreePids(World(<<>>, {})) # {}
    /\ \E reg \in BOOLEAN, outcome \in SpawnOutcomes :
         LET s == start(HandleWorld(<<>>, {}, reg), Unwrap(syncthing_process), outcome)
         IN  Returned("start", in_place(s), s.res)

\* handle.stop()
HandleStop ==
    /\ IsSome(syncthing_process)
    /\ \E q \in Q1, denied \in SUBSET Matching(procs), reg \in BOOLEAN :
         LET s == stop(HandleWorld(q, denied, reg), Unwrap(syncthing_process))
         IN  Returned("stop", in_place(s), s.res)

\* handle.is_running()
HandleIsRunning ==
    /\ IsSome(syncthing_process)
    /\ \E q \in Q1, reg \in BOOLEAN :
         LET r == is_running(HandleWorld(q, {}, reg), Unwrap(syncthing_process))
         IN  Returned("is_running", r.w, IF r.ret THEN "true" ELSE "false")

\* slot = None
HandleDrop ==
    /\ IsSome(syncthing_process)
    /\ Returned("drop", assign(World(<<>>, {}), None), "unit")

HandleNext ==
    \/ ExtSpawn
    \/ ProcExit
    \/ HandleNew
    \/ HandleAttachStarted
    \/ HandleAttachDetected
    \/ HandleStart
    \/ HandleStop
    \/ HandleIsRunning
    \/ HandleDrop

HandleSpec == Init /\ [][HandleNext]_vars

(***************************************************************************)
(* TrayUi::start_monitoring_thread taken by itself, on an AppState whose   *)
(* mutex may be poisoned when the sender is to be registered: then no      *)
(* sender is stored, tx is dropped when the function returns, and the      *)
(* receiver of the consumer thread is disconnected.                        *)
(***************************************************************************)
StartMonitoringThread ==
    /\ main_pc = "new"
    /\ \E locked \in BOOLEAN :
         /\ process_state_sender' = locked
         /\ lock' = IF locked THEN Free ELSE Poisoned
    /\ cpc' = "init"
    /\ main_pc' = "park"
    /\ UNCHANGED <<syncthing_process, chan, procs, exited, waits, seen, pc, last, prev>>
    /\ UNCHANGED <<last_state, derived, handled, tray_state, config_vars>>
    /\ UNCHANGED <<callback_vars, tray_lock>>

\* Err(RecvTimeoutError::Disconnected): nothing is buffered and no sender
\* is left; the loop breaks and the thread ends.
ConsumerDisconnected ==
    /\ ~exited
    /\ cpc = "recv"
    /\ chan = <<>>
    /\ ~process_state_sender
    /\ cpc' = "ended"
    /\ handled' = "Disconnected"
    /\ UNCHANGED <<syncthing_process, process_state_sender, chan, procs, main_pc,
                   exited, last_state, derived, tray_state>>
    /\ UNCHANGED <<caller_vars, config_vars, waits, seen>>
    /\ UNCHANGED <<callback_vars, tray_lock>>

ConsumerNext ==
    \/ ExtSpawn
    \/ ProcExit
    \/ StartMonitoringThread
    \/ \E t \in Callers : Acquire(t)
    \/ \E t \in Callers : RunStart(t)
    \/ \E t \in Callers : RunStop(t)
    \/ \E t \in Callers : RunPoll(t)
    \/ \E t \in Callers : Release(t)
    \/ ConsumerInit
    \/ ConsumerRecv
    \/ ConsumerTimeout
    \/ ConsumerRender
    \/ ConsumerDisconnected

ConsumerSpec == Init /\ [][ConsumerNext]_vars

(***************************************************************************)
(* The two mutexes.  The steps of the consumer thread and of main() are    *)
(* taken apart here into the taking and the dropping of each guard:        *)
(* get_current_process_state locks the AppState and drops the guard when   *)
(* it returns; set_state and recreate_tray_menu run under the TrayUi       *)
(* guard; main() locks the TrayUi for setup_tray_menu after TrayUi::new    *)
(* has spawned the consumer.  The menu and exit-callback threads lock the  *)
(* AppState only (Acquire, Run.., Release).                                *)
(***************************************************************************)
GuardOutlivesRead == "consumer"

\* The holder of the AppState mutex once get_current_process_state returned.
StateGuardAfterRead == Free

\* TrayUi::new up to thread::spawn in start_monitoring_thread.
TrayCreated ==
    /\ main_pc = "new"
    /\ process_state_sender' = TRUE
    /\ cpc' = "init"
    /\ main_pc' = "setup"
    /\ UNCHANGED <<syncthing_process, chan, procs, exited, waits, seen>>
    /\ UNCHANGED <<last_state, derived, handled, tray_state, tray_lock>>
    /\ UNCHANGED <<caller_vars, config_vars, callback_vars>>

\* main: tray_ui.lock().unwrap()
MainLocksTray ==
    /\ main_pc = "setup"
    /\ tray_lock = Free
    /\ tray_lock' = "main"
    /\ main_pc' = "setup_locked"
    /\ UNCHANGED <<syncthing_process, process_state_sender, chan, procs, exited,
                   waits, seen>>
    /\ UNCHANGED <<cpc, last_state, derived, handled, tray_state>>
    /\ UNCHANGED <<caller_vars, config_vars, callback_vars>>

\* main: setup_tray_menu() returned and the guard is dropped.
MainSetupDone ==
    /\ main_pc = "setup_locked"
    /\ tray_lock' = Free
    /\ main_pc' = "park"
    /\ UNCHANGED <<syncthing_process, process_state_sender, chan, procs, exited,
                   waits, seen>>
    /\ UNCHANGED <<cpc, last_state, derived, handled, tray_state>>
    /\ UNCHANGED <<caller_vars, config_vars, callback_vars>>

\* get_current_process_state: app_state.lock()
ConsumerLocksState ==
    /\ ~exited
    /\ cpc \in {"init", "want_state"}
    /\ lock = Free
    /\ lock' = "consumer"
    /\ cpc' = IF cpc = "init" THEN "init_reading" ELSE "reading"
    /\ UNCHANGED <<syncthing_process, process_state_sender, chan, procs, main_pc,
                   exited, waits, seen, pc, last, prev>>
    /\ UNCHANGED <<last_state, derived, handled, tray_state, tray_lock>>
    /\ UNCHANGED <<config_vars, callback_vars>>

\* get_current_process_state returns; the first state is always rendered.
ConsumerReadsState ==
    /\ ~exited
    /\ cpc \in {"init_reading", "reading"}
    /\ derived' = get_current_process_state(syncthing_process)
    /\ lock' = StateGuardAfterRead
    /\ cpc' = IF cpc = "init_reading" THEN "render" ELSE AfterDerive(derived')
    /\ UNCHANGED <<syncthing_process, process_state_sender, chan, procs, main_pc,
                   exited, waits, seen, pc, last, prev>>
    /\ UNCHANGED <<last_state, handled, tray_state, tray_lock>>
    /\ UNCHANGED <<config_vars, callback_vars>>

\* tray_ui_arc.lock()
ConsumerLocksTray ==
    /\ ~exited
    /\ cpc = "render"
    /\ tray_lock = Free
    /\ tray_lock' = "consumer"
    /\ cpc' = "rendering"
    /\ UNCHANGED <<syncthing_process, process_state_sender, chan, procs, main_pc,
                   exited, waits, seen>>
    /\ UNCHANGED <<last_state, derived, handled, tray_state>>
    /\ UNCHANGED <<caller_vars, config_vars, callback_vars>>

\* set_state, recreate_tray_menu, the guard is dropped, last_state is set.
ConsumerRendered ==
    /\ ~exited
    /\ cpc = "rendering"
    /\ tray_state' = derived
    /\ last_state' = derived
    /\ tray_lock' = Free
    /\ cpc' = "recv"
    /\ handled' = "none"
    /\ UNCHANGED <<syncthing_process, process_state_sender, chan, procs, main_pc,
                   exited, waits, seen, derived>>
    /\ UNCHANGED <<caller_vars, config_vars, callback_vars>>

\* Ok(event): Started and Exited give the status, the others ask AppState.
ConsumerTakes ==
    /\ ~exited
    /\ cpc = "recv"
    /\ chan # <<>>
    /\ chan' = Tail(chan)
    /\ handled' = Head(chan)
    /\ derived' = IF Head(chan) \in {"Started", "Exited"}
                  THEN StateForEvent(Head(chan), syncthing_process) ELSE derived
    /\ cpc' = IF Head(chan) \in {"Started", "Exited"} THEN AfterDerive(derived')
              ELSE "want_state"
    /\ UNCHANGED <<syncthing_process, process_state_sender, procs, main_pc, exited,
                   waits, seen>>
    /\ UNCHANGED <<last_state, tray_state, tray_lock>>
    /\ UNCHANGED <<caller_vars, config_vars, callback_vars>>

\* Err(Timeout): the fallback check asks AppState.
ConsumerTimesOut ==
    /\ ~exited
    /\ cpc = "recv"
    /\ chan = <<>>
    /\ handled' = "Timeout"
    /\ cpc' = "want_state"
    /\ UNCHANGED <<syncthing_process, process_state_sender, chan, procs, main_pc,
                   exited, waits, seen>>
    /\ UNCHANGED <<last_state, derived, tray_state, tray_lock>>
    /\ UNCHANGED <<caller_vars, config_vars, callback_vars>>

LockNext ==
    \/ ExtSpawn
    \/ ProcExit
    \/ TrayCreated
    \/ MainLocksTray
    \/ MainSetupDone
    \/ \E t \in Callers : Acquire(t)
    \/ \E t \in Callers : RunStart(t)
    \/ \E t \in Callers : RunStop(t)
    \/ \E t \in Callers : RunPoll(t)
    \/ \E t \in Callers : RunExitCallback(t)
    \/ \E t \in Callers : Release(t)
    \/ ConsumerLocksState
    \/ ConsumerReadsState
    \/ ConsumerLocksTray
    \/ ConsumerRendered
    \/ ConsumerTakes
    \/ ConsumerTimesOut

LockSpec == Init /\ [][LockNext]_vars

(***************************************************************************)
(* Config::load_or_create taken by itself, on the files a user may have    *)
(* left: none, one that is not JSON, an array, or an object in which every *)
(* key is absent or holds one of a few values (null and values of another  *)
(* type among them), with or without a key Config does not know.           *)
(***************************************************************************)
\* The values a file may give to the key k.
Choices(k) ==
    CASE k = "log_level" -> {JStr("debug"), JNull, JNum}
      [] k = "syncthing_path" -> {JStr("test/path.exe"), JNull}
      [] k = "web_ui_url" -> {JStr("http://localhost:9999")}
      [] k = "startup_args" -> {JArr(<<>>), JArr(<<"--test">>), JStr("--test")}
      [] k = "process_closure_behavior" -> {JStr("close_all"), JStr("bogus"), JNull}
      [] k = "auto_launch_internal" -> {JBool(TRUE), JNull}
      [] OTHER -> {JStr("dark")}

\* The key k is absent (None) or holds one of its values.
Entry(k) == {None} \cup {Some(v) : v \in Choices(k)}

\* The object with the keys that pick gives a value.
ObjectOf(pick) ==
    JObject([k \in {j \in DOMAIN pick : IsSome(pick[j])} |-> Unwrap(pick[k])])

Files ==
    {MissingFile, [kind |-> "garbage", obj |-> NoKeys], [kind |-> "array", obj |-> NoKeys]}
      \cup {ObjectOf([log_level |-> a, syncthing_path |-> b, web_ui_url |-> c,
                      startup_args |-> d, process_closure_behavior |-> e,
                      auto_launch_internal |-> f, theme |-> g]) :
               a \in Entry("log_level"), b \in Entry("syncthing_path"),
               c \in Entry("web_ui_url"), d \in Entry("startup_args"),
               e \in Entry("process_closure_behavior"),
               f \in Entry("auto_launch_internal"), g \in Entry("theme")}

ConfigInit ==
    /\ CoreInit
    /\ config_file \in Files
    /\ loaded = NotLoaded
    /\ exe_name = <<>>
    /\ normalized = None

\* Config::load_or_create(path): syncthing.exe is on the PATH or not, and
\* the file can be written or not.
LoadConfig ==
    /\ \E on_path \in {None, Some(ConfigPath)}, writable \in BOOLEAN :
         LET r == load_or_create(config_file, default_config(on_path), writable)
         IN  /\ config_file' = r.file
             /\ loaded' = [res |-> r.res, config |-> r.config, from |-> config_file,
                           writable |-> writable]
    /\ UNCHANGED <<syncthing_process, process_state_sender, policy, chan, procs,
                   main_pc, exited, waits, seen>>
    /\ UNCHANGED <<consumer_vars, caller_vars, callback_vars, utils_vars>>

ConfigNext == LoadConfig

ConfigSpec == ConfigInit /\ [][ConfigNext]_vars

(***************************************************************************)
(* utils.rs.  A name is the sequence of its characters; a str is indexed   *)
(* by byte, and slicing it anywhere but on a character boundary panics.    *)
(***************************************************************************)
MaxName == 8
\* "e-acute" stands for U+00E9, a character of two bytes in UTF-8.
Chars == {".", "e", "x", "E", "e-acute"}
Names == UNION {[1..n -> Chars] : n \in 0..MaxName}
DotExe == <<".", "e", "x", "e">>

\* char::len_utf8
len_utf8(c) == IF c = "e-acute" THEN 2 ELSE 1

\* str::len: the length in bytes.
RECURSIVE byte_len(_)
byte_len(s) == IF s = <<>> THEN 0 ELSE len_utf8(Head(s)) + byte_len(Tail(s))

\* str::is_char_boundary
is_char_boundary(s, k) == \E n \in 0..Len(s) : byte_len(SubSeq(s, 1, n)) = k

\* The number of characters in the first k bytes of s (k a boundary).
chars_before(s, k) == CHOOSE n \in 0..Len(s) : byte_len(SubSeq(s, 1, n)) = k

\* &s[k..] and &s[..k]
slice_from(s, k) == SubSeq(s, chars_before(s, k) + 1, Len(s))
slice_to(s, k) == SubSeq(s, 1, chars_before(s, k))

\* u8::to_ascii_lowercase on the characters of the model.
to_ascii_lowercase(c) ==
    CASE c = "E" -> "e"
      [] c = "X" -> "x"
      [] OTHER -> c

\* str::eq_ignore_ascii_case
eq_ignore_ascii_case(a, b) ==
    /\ Len(a) = Len(b)
    /\ \A i \in 1..Len(a) : to_ascii_lowercase(a[i]) = to_ascii_lowercase(b[i])

returned(s) == [panic |-> FALSE, val |-> s]
panicked == [panic |-> TRUE, val |-> <<>>]

\* normalize_exe_name, once the name is known to have four bytes: cut is
\* exe_name.len() - 4.
strip_at(s, cut) ==
    IF ~is_char_boundary(s, cut) THEN panicked
    ELSE IF eq_ignore_ascii_case(slice_from(s, cut), DotExe)
    THEN returned(slice_to(s, cut))
    ELSE returned(s)

\* utils::normalize_exe_name
normalize_exe_name(s) ==
    IF byte_len(s) >= 4 THEN strip_at(s, byte_len(s) - 4) ELSE returned(s)

UtilsInit ==
    /\ CoreInit
    /\ config_file = MissingFile
    /\ loaded = NotLoaded
    /\ exe_name \in Names
    /\ normalized = None

\* A call normalize_exe_name(exe_name).
Normalize ==
    /\ normalized = None
    /\ normalized' = Some(normalize_exe_name(exe_name))
    /\ UNCHANGED <<syncthing_process, process_state_sender, chan, procs, main_pc,
                   exited, waits, seen, exe_name>>
    /\ UNCHANGED <<consumer_vars, caller_vars, callback_vars>>
    /\ UNCHANGED <<policy, config_file, loaded>>

UtilsNext == Normalize

UtilsSpec == UtilsInit /\ [][UtilsNext]_vars

(***************************************************************************)
(* The exit monitor.  A registered wait queues process_exit_callback once   *)
(* (WT_EXECUTEONLYONCE) when its process handle is signalled; the callback *)
(* runs later, on a thread of the operating system, and UnregisterWait     *)
(* does not take a queued callback back.  A wait whose process handle was  *)
(* closed (detect_process closes it right after the registration, stop()   *)
(* drops the Child) is outside the contract of RegisterWaitForSingleObject:*)
(* such a wait may be signalled at any time or never.                      *)
(***************************************************************************)
ProcessHandleClosed(p) ==
    /\ IsSome(syncthing_process)
    /\ Unwrap(syncthing_process).monitor_handle = Some(p)
    /\ Unwrap(syncthing_process).child # Some(p)

ExitSignalled ==
    /\ ~exited
    /\ \E p \in Pids :
         /\ waits[p] > 0
         /\ p \notin pending
         /\ procs[p] = "gone" \/ ProcessHandleClosed(p)
         /\ pending' = pending \cup {p}
    /\ UNCHANGED <<syncthing_process, process_state_sender, chan, procs, main_pc, exited>>
    /\ UNCHANGED <<consumer_vars, caller_vars, config_vars, waits, seen, owner>>

CallbackRuns ==
    /\ ~exited
    /\ lock = Free
    /\ \E p \in pending, q \in Q1 :
         LET r == process_exit_callback([World(q, {}) EXCEPT !.arg = p], p, owner)
         IN  /\ Commit(r.w)
             /\ last' = Outcome("process_exit_callback", r.w, r.res)
             /\ pending' = pending \ {p}
    /\ seen' = procs
    /\ UNCHANGED <<process_state_sender, main_pc, lock, pc, prev, exited, owner>>
    /\ UNCHANGED <<consumer_vars, config_vars>>

\* The last strong reference to the AppState goes: its handle is dropped.
OwnerDropped ==
    /\ ~exited
    /\ owner
    /\ lock = Free
    /\ Commit(assign(World(<<>>, {}), None))
    /\ last' = Outcome("drop_app_state", World(<<>>, {}), "unit")
    /\ owner' = FALSE
    /\ seen' = procs
    /\ UNCHANGED <<process_state_sender, main_pc, lock, pc, prev, exited, pending>>
    /\ UNCHANGED <<consumer_vars, config_vars>>

MonitorNext ==
    \/ ExtSpawn
    \/ ProcExit
    \/ HandleAttachStarted
    \/ HandleAttachDetected
    \/ HandleStop
    \/ HandleIsRunning
    \/ HandleDrop
    \/ ExitSignalled
    \/ CallbackRuns
    \/ OwnerDropped

MonitorSpec == Init /\ [][MonitorNext]_vars

(***************************************************************************)
(* Properties                                                              *)
(***************************************************************************)
\* The pid of the tracked handle when the application started it.
ManagedPids(sp) ==
    IF IsSome(sp) /\ Unwrap(sp).started_by_app /\ IsSome(Unwrap(sp).pid)
    THEN {Unwrap(Unwrap(sp).pid)} ELSE {}

IsExternal(sp) == IsSome(sp) /\ ~Unwrap(sp).started_by_app

\* The step in which the Exit menu action runs handle_exit_closure.
ExitStep == last'.op = "Exit" /\ last.op # "Exit"

\* C1: handle_exit_closure requests exactly the terminations of the policy
\* table.  CloseAll: the managed tracked process and every process running
\* the configured executable (all of them when no process-table query
\* failed, never anything else); CloseManaged: the tracked process when the
\* application started it and nothing else; DontClose: nothing.
ClosureTable ==
    [][ExitStep =>
         CASE policy' = "CloseAll" ->
                /\ ManagedPids(last'.pre) \subseteq last'.kills
                /\ last'.kills \subseteq ManagedPids(last'.pre) \cup Matching(procs)
                /\ ~last'.qfail =>
                     last'.kills = ManagedPids(last'.pre) \cup Matching(procs)
           [] policy' = "CloseManaged" -> last'.kills = ManagedPids(last'.pre)
           [] OTHER -> last'.kills = {}]_vars

\* CloseAll ran with a managed process tracked and a foreign instance of the
\* configured executable alive: both were asked to terminate.
ClosedManagedAndForeign ==
    /\ exited
    /\ policy = "CloseAll"
    /\ ManagedPids(last.pre) # {}
    /\ Cardinality(last.kills) = 2

\* C2: under DontClose (whatever is tracked) and under CloseManaged with an
\* external handle tracked, handle_exit_closure leaves the tracked handle,
\* every process and the channel as they were: no kill, no event.
ClosureFrame ==
    [][ExitStep /\ (\/ policy' = "DontClose"
                    \/ policy' = "CloseManaged" /\ IsExternal(syncthing_process)) =>
         /\ syncthing_process' = syncthing_process
         /\ procs' = procs
         /\ chan' = chan
         /\ last'.kills = {}
         /\ last'.sent = 0]_vars

\* CloseManaged ran with a live external process tracked, and left it alone.
ExternalLeftRunning ==
    /\ exited
    /\ policy = "CloseManaged"
    /\ IsExternal(last.pre)
    /\ syncthing_process = last.pre
    /\ Unwrap(Unwrap(syncthing_process).pid) \in Matching(procs)

\* C3: once handle_exit_closure has returned under CloseAll, or under
\* CloseManaged with a managed handle tracked, no process is tracked.
ClosureClearsHandle ==
    (/\ last.op = "Exit"
     /\ \/ policy = "CloseAll"
        \/ policy = "CloseManaged" /\ ManagedPids(last.pre) # {})
    => syncthing_process = None

\* CloseAll has returned and the external handle is still tracked.
HandleSurvivesCloseAll ==
    /\ exited
    /\ policy = "CloseAll"
    /\ IsExternal(last.pre)
    /\ syncthing_process = last.pre

\* C4: whatever the policy, the tracked handle and the outcome of the
\* termination attempts, the Exit action ends in std::process::exit: an
\* error of handle_exit_closure is logged, not returned.
ShutdownCompletes ==
    last.op = "Exit" =>
      /\ exited
      /\ last.ret = "Ok"
      /\ \E t \in Callers : pc[t] = "exit"

\* The application exited although a process-table query failed, a warning
\* was logged and a process it asked to terminate is still alive.
ExitedDespiteFailures ==
    /\ exited
    /\ last.qfail
    /\ last.warn
    /\ \E p \in last.kills : procs[p] \in Paths

MutatingOps ==
    {"start_syncthing", "stop_syncthing", "handle_process_exit", "syncthing_running"}

\* The tracked running/not-running status differs from the one the call found.
StatusChanged == IsSome(last.pre) # IsSome(syncthing_process)

\* C5 (as amended): a mutating operation sends one event for each change it
\* makes to the tracked status: none when it changes nothing, one when the
\* status ends up changed, and two (StateChanged, then Started) only when
\* start_syncthing finds the tracked process dead and starts a new one.
OneEventPerFlip ==
    last.op \in MutatingOps =>
      /\ last.sent = last.flips
      /\ last.flips = 1 <=> StatusChanged
      /\ last.flips \in {0, 1, 2}
      /\ last.flips = 2 =>
           /\ last.op = "start_syncthing"
           /\ IsSome(last.pre)
           /\ last.ret = "Ok"

\* start_syncthing replaced a dead tracked process and sent two events.
StartSentTwoEvents ==
    /\ last.op = "start_syncthing"
    /\ last.sent = 2
    /\ IsSome(last.pre)
    /\ IsSome(syncthing_process)

\* C5 (as written): a mutating operation sends exactly one event when it
\* changes the tracked status and none otherwise.
OneEventPerOperation ==
    last.op \in MutatingOps => last.sent = IF StatusChanged THEN 1 ELSE 0

\* A poll of the tracked handle would find it not running.
TrackedDead ==
    /\ IsSome(syncthing_process)
    /\ ~is_running(World(<<TRUE>>, {}), Unwrap(syncthing_process)).ret

\* C6: when the tracked process has been terminated from outside, the
\* timeout path of the consumer loop derives Stopped.
TimeoutCatchesExit ==
    [][ConsumerTimeout /\ TrackedDead => derived' = "Stopped"]_vars

\* The timeout path ran while the tracked process was dead and the tray
\* still shows Running.
TimeoutKeptRunning ==
    /\ handled = "Timeout"
    /\ cpc = "recv"
    /\ TrackedDead
    /\ tray_state = "Running"

\* C7: the status the consumer derives on an event is AppState's tracked
\* status at that moment, whatever the event's tag.
ConsumerRereadsAppState ==
    [][ConsumerRecv => derived' = get_current_process_state(syncthing_process)]_vars

\* An Exited event was taken as Stopped while AppState tracks a process.
ExitedTakenFromTag ==
    /\ handled = "Exited"
    /\ derived = "Stopped"
    /\ cpc = "render"
    /\ IsSome(syncthing_process)

\* C8: the consumer goes on to render only when the status it derived
\* differs from last_state, and the tray state and last_state change only in
\* such a render (or at start-up); an Exited event for a state already
\* rendered as Stopped is taken without a render.
RerenderOnlyOnChange ==
    [][/\ (cpc = "recv" /\ cpc' = "render") => derived' # last_state
       /\ (ConsumerRecv /\ Head(chan) = "Exited" /\ last_state = "Stopped") =>
            (cpc' = "recv" /\ tray_state' = tray_state /\ last_state' = last_state)
       /\ (tray_state' # tray_state \/ last_state' # last_state) =>
            \/ cpc = "render" /\ derived # last_state
            \/ cpc = "init"
            \/ main_pc = "tray"]_vars

\* An Exited event was received for a state already rendered as Stopped.
ExitedWhileStopped ==
    /\ handled = "Exited"
    /\ cpc = "recv"
    /\ last_state = "Stopped"
    /\ tray_state = "Stopped"

\* C9 (as amended): every event is sent by the thread that holds the
\* AppState mutex, which still holds it when the send is done.
SendUnderLock ==
    [][Len(chan') > Len(chan) => (lock \in Callers /\ lock' = lock)]_vars

\* A caller has sent an event and still holds the mutex.
SentWhileLocked ==
    /\ lock \in Callers
    /\ pc[lock] = "done"
    /\ last.sent > 0
    /\ chan # <<>>

\* C9 (as written): the AppState mutex is free whenever an event is sent.
SendAfterRelease ==
    [][Len(chan') > Len(chan) => lock = Free]_vars

\* C10: calls into AppState are serialized by the mutex, and a
\* stop_syncthing that follows a successful stop_syncthing finds no handle,
\* asks for no kill and sends no event.
StopsSerialized ==
    /\ Cardinality({t \in Callers : pc[t] \in {"locked", "done", "exit"}}) <= 1
    /\ \A t \in Callers : pc[t] \in {"locked", "done", "exit"} => lock = t
    /\ (last.op = "stop_syncthing" /\ prev = "stop_ok") =>
         /\ last.pre = None
         /\ last.kills = {}
         /\ last.sent = 0
         /\ last.ret = "Ok"
         /\ syncthing_process = None

\* A second stop_syncthing has run right after a successful one.
SecondStopRan ==
    /\ last.op = "stop_syncthing"
    /\ prev = "stop_ok"
    /\ \E t \in Callers : pc[t] = "done"

\* The step in which the method name runs under the guard.
CallStep(name) == last'.op = name /\ last.op = "none"

\* The tracked process is still there for a poll that can query the table.
TrackedAlive == IsSome(syncthing_process) /\ ~TrackedDead

MonitoredBy(h) ==
    IF IsSome(h.monitor_handle) THEN {Unwrap(h.monitor_handle)} ELSE {}

\* C12: the slot holds at most one handle, and the exit waits registered
\* with the operating system are exactly the one wait of that handle: once
\* a started or detected handle was put into the slot, no registration of
\* the handle it replaced is left.
OnlyTheHeldHandleWaits ==
    \A p \in Pids :
       waits[p] = IF IsSome(syncthing_process)
                     /\ p \in MonitoredBy(Unwrap(syncthing_process))
                  THEN 1 ELSE 0

\* An attach replaced a handle that had a registered exit wait.
ReplacedMonitoredHandle ==
    /\ last.op \in {"attach_started", "attach_detected"}
    /\ last.ret = "Ok"
    /\ IsSome(last.pre)
    /\ IsSome(syncthing_process)
    /\ syncthing_process # last.pre
    /\ MonitoredBy(Unwrap(last.pre)) # {}
    /\ MonitoredBy(Unwrap(last.pre)) # MonitoredBy(Unwrap(syncthing_process))
    /\ \A p \in MonitoredBy(Unwrap(last.pre)) : waits[p] = 0

\* The slot holds after this step a handle for another process than before.
Attached ==
    /\ IsSome(syncthing_process')
    /\ IsSome(Unwrap(syncthing_process').pid)
    /\ \/ syncthing_process = None
       \/ Unwrap(syncthing_process).pid # Unwrap(syncthing_process').pid

\* The slot holds after this step the handle it held, for the same process.
Kept ==
    /\ IsSome(syncthing_process)
    /\ IsSome(syncthing_process')
    /\ Unwrap(syncthing_process).pid = Unwrap(syncthing_process').pid

\* C13: a handle that comes into AppState is tagged started_by_app exactly
\* when its process was spawned by the step that built it (start()), and is
\* untagged when the process was already running (detection); as long as
\* AppState keeps the handle its tag stays what it was.
TagTellsOrigin ==
    [][/\ Attached =>
            Unwrap(syncthing_process').started_by_app
              = (procs[Unwrap(Unwrap(syncthing_process').pid)] = "free")
       /\ Kept =>
            Unwrap(syncthing_process').started_by_app
              = Unwrap(syncthing_process).started_by_app]_vars

\* start_syncthing found the detected process it tracked gone and put a
\* started handle in its place.
StartedHandleReplacedDetected ==
    /\ last.op = "start_syncthing"
    /\ last.spawned # {}
    /\ IsExternal(last.pre)
    /\ IsSome(syncthing_process)
    /\ Unwrap(syncthing_process).started_by_app
    /\ Unwrap(syncthing_process).pid # Unwrap(last.pre).pid

\* C14: in every reachable state the handle AppState tracks, when it is
\* tagged started_by_app, has pid = Some(_): a started handle without a pid
\* is never retained.
ManagedHandleHasPid ==
    IsSome(syncthing_process) /\ Unwrap(syncthing_process).started_by_app
      => IsSome(Unwrap(syncthing_process).pid)

\* The child of the tracked started handle has exited; the handle is still
\* tracked and still has its pid.
ExitedChildKeepsPid ==
    /\ ManagedPids(syncthing_process) # {}
    /\ IsSome(Unwrap(syncthing_process).pid)
    /\ TrackedDead

\* is_running() has returned, the call before it was is_running() too, and
\* the process table did not change between the two.
CalledTwice ==
    /\ last.op = "is_running"
    /\ prev \in {"said_true", "said_false", "failed_false"}

\* C15: of two consecutive is_running() calls with no change of the process
\* table in between, the second returns what the first returned, and it
\* changes no field of the handle.
IsRunningIdempotent ==
    CalledTwice
      => /\ (last.ret = "true") = (prev = "said_true")
         /\ syncthing_process = last.pre

\* The first call said true, the second said false because its query
\* failed; the process the handle stands for ran all the time.
AnswerChangedTableDidNot ==
    /\ CalledTwice
    /\ prev = "said_true"
    /\ last.ret = "false"
    /\ last.qfail
    /\ IsExternal(syncthing_process)
    /\ IsSome(Unwrap(syncthing_process).pid)
    /\ seen[Unwrap(Unwrap(syncthing_process).pid)] \in Paths

\* is_running() has returned; it was called on a started handle whose child
\* had exited by then.
AskedAfterChildExit ==
    /\ last.op = "is_running"
    /\ IsSome(last.pre)
    /\ Unwrap(last.pre).started_by_app
    /\ IsSome(Unwrap(last.pre).child)
    /\ seen[Unwrap(Unwrap(last.pre).child)] = "gone"

\* C16: for a started handle whose child has exited, is_running() returns
\* false and sets the pid of the handle to None.
ExitedChildClearsPid ==
    AskedAfterChildExit
      => /\ last.ret = "false"
         /\ IsSome(syncthing_process)
         /\ Unwrap(syncthing_process).pid = None

\* is_running() said false for the exited child of a started handle, and
\* the handle still has the pid start() gave it.
SaidFalseKeptPid ==
    /\ AskedAfterChildExit
    /\ last.ret = "false"
    /\ Unwrap(syncthing_process).pid = Unwrap(last.pre).child

\* stop() has returned.
Stopped == last.op = "stop" /\ IsSome(last.pre) /\ IsSome(syncthing_process)

\* C17: when stop() has returned, with Ok or with an error, the handle has
\* pid = None and holds no exit wait, and no exit wait is registered.
StopClearsHandle ==
    Stopped
      => /\ Unwrap(syncthing_process).pid = None
         /\ Unwrap(syncthing_process).monitor_handle = None
         /\ \A p \in Pids : waits[p] = 0

\* stop() returned Ok; the handle still has its pid and its exit wait is
\* still registered.
StoppedKeptPidAndWait ==
    /\ Stopped
    /\ last.ret = "Ok"
    /\ IsSome(Unwrap(syncthing_process).pid)
    /\ MonitoredBy(Unwrap(syncthing_process)) # {}
    /\ \A p \in MonitoredBy(Unwrap(syncthing_process)) : waits[p] = 1

\* stop() was called on a detected handle and the operating system denied
\* the termination of the handle's process, which runs on.
KillDenied ==
    /\ Stopped
    /\ IsExternal(last.pre)
    /\ IsSome(Unwrap(last.pre).pid)
    /\ Unwrap(Unwrap(last.pre).pid) \in last.kills
    /\ seen[Unwrap(Unwrap(last.pre).pid)] \in Paths

\* C18: stop() on a detected handle returns an error when the operating
\* system denies the termination.
DeniedKillIsReported == KillDenied => last.ret = "Err"

\* The termination was denied and stop() returned Ok.
DeniedKillReturnedOk == KillDenied /\ last.ret = "Ok"

\* C19: stop() on a detected handle requests the termination of no process
\* but the one whose pid the handle has.
ExternalStopKillsOwnPidOnly ==
    Stopped /\ IsExternal(last.pre) /\ IsSome(Unwrap(last.pre).pid)
      => last.kills \subseteq {Unwrap(Unwrap(last.pre).pid)}

\* stop() on a detected handle terminated a process with another pid.
ExternalStopKilledAnotherPid ==
    /\ Stopped
    /\ IsExternal(last.pre)
    /\ IsSome(Unwrap(last.pre).pid)
    /\ \E p \in last.kills :
         p # Unwrap(Unwrap(last.pre).pid) /\ seen[p] = "gone"

\* start() has returned; it was called on a handle whose child was running.
StartedOnLiveChild ==
    /\ last.op = "start"
    /\ IsSome(last.pre)
    /\ IsSome(Unwrap(last.pre).child)
    /\ seen[Unwrap(Unwrap(last.pre).child)] \in Paths

\* C20: start() on a handle that owns a running child fails, spawns no
\* process and leaves the handle as it was.
StartOnLiveChildRefused ==
    StartedOnLiveChild
      => /\ last.ret = "Err"
         /\ last.spawned = {}
         /\ syncthing_process = last.pre

\* start() returned Ok on a handle whose child was running: a second
\* process was spawned, the handle has its pid, the first child runs on.
SecondChildSpawned ==
    /\ StartedOnLiveChild
    /\ last.ret = "Ok"
    /\ last.spawned # {}
    /\ IsSome(syncthing_process)
    /\ Unwrap(syncthing_process).child # Unwrap(last.pre).child
    /\ Unwrap(Unwrap(syncthing_process).pid) \in last.spawned

\* start_syncthing has returned Ok after spawning the daemon.
StartedThroughAppState ==
    /\ last.op = "start_syncthing"
    /\ last.ret = "Ok"
    /\ last.spawned # {}
    /\ IsSome(syncthing_process)
    /\ Unwrap(syncthing_process).started_by_app

\* C21: once start_syncthing has returned Ok for a daemon it spawned, the
\* tracked handle holds an exit wait registered for its pid.
StartedHandleIsMonitored ==
    StartedThroughAppState
      => /\ Unwrap(syncthing_process).monitor_handle = Unwrap(syncthing_process).pid
         /\ waits[Unwrap(Unwrap(syncthing_process).pid)] = 1

\* start_syncthing returned Ok, the daemon it spawned runs and is tracked,
\* and no exit wait is registered for it.
StartedHandleUnmonitored ==
    /\ StartedThroughAppState
    /\ Unwrap(Unwrap(syncthing_process).pid) \in last.spawned
    /\ procs[Unwrap(Unwrap(syncthing_process).pid)] \in Paths
    /\ Unwrap(syncthing_process).monitor_handle = None
    /\ \A p \in Pids : waits[p] = 0

\* A call that builds or starts a handle has returned, and the registration
\* of the exit wait it attempted had failed.
RegistrationFailed ==
    /\ last.op \in {"attach_started", "attach_detected", "start"}
    /\ last.regfail

\* C22: when the registration of the exit wait fails, start() and
\* detect_process() still succeed: the slot holds a handle with the pid of
\* the process, which was running, no wait is registered for that pid, and
\* a handle built by the call holds no monitor.
RegistrationFailureAbsorbed ==
    RegistrationFailed
      => /\ last.ret = "Ok"
         /\ IsSome(syncthing_process)
         /\ IsSome(Unwrap(syncthing_process).pid)
         /\ seen[Unwrap(Unwrap(syncthing_process).pid)] \in Paths
         /\ waits[Unwrap(Unwrap(syncthing_process).pid)] = 0
         /\ last.op # "start" => Unwrap(syncthing_process).monitor_handle = None

\* The registration failed for a detected process; the handle is in the
\* slot without a monitor and is_running() on it has since said true.
UnmonitoredHandlePolled ==
    /\ last.op = "is_running"
    /\ last.ret = "true"
    /\ syncthing_process = last.pre
    /\ IsExternal(syncthing_process)
    /\ IsSome(Unwrap(syncthing_process).pid)
    /\ Unwrap(syncthing_process).app_state
    /\ Unwrap(syncthing_process).monitor_handle = None

\* The step in which a queued exit callback runs.
CallbackStep == pending' # pending /\ pending' \subseteq pending

\* C23: an exit callback that runs when the AppState has been dropped does
\* nothing: no state is touched, no event is sent, and it does not fail.
CallbackWithoutOwnerIsNoOp ==
    [][CallbackStep /\ ~owner
         => /\ last'.ret = "noop"
            /\ last'.sent = 0
            /\ UNCHANGED <<syncthing_process, process_state_sender, chan, procs,
                           waits, owner>>]_vars

\* The callback of a process that has exited ran after the AppState had
\* been dropped, and did nothing.
CallbackRanAfterOwnerDropped ==
    /\ ~owner
    /\ last.op = "process_exit_callback"
    /\ last.ret = "noop"
    /\ procs[last.arg] = "gone"
    /\ syncthing_process = None

\* The exit callback of a process that has exited has run, and the handle
\* in the slot did not hold its registration: the handle it was registered
\* for had been released.
ReleasedCallbackRan ==
    /\ last.op = "process_exit_callback"
    /\ owner
    /\ seen[last.arg] = "gone"
    /\ IsSome(last.pre) => last.arg \notin MonitoredBy(Unwrap(last.pre))

\* C24: an exit callback of a released registration changes nothing in
\* AppState and sends no event.
ReleasedCallbackIsInert ==
    ReleasedCallbackRan => syncthing_process = last.pre /\ last.sent = 0

\* The callback for the exited process of a released handle ran while
\* another process was tracked, and left nothing tracked.
ReleasedCallbackClearedHandle ==
    /\ ReleasedCallbackRan
    /\ IsSome(last.pre)
    /\ Unwrap(last.pre).pid # Some(last.arg)
    /\ syncthing_process = None

\* C25: a failed query of the process table is taken as "not found" and
\* goes no further: AppState::new then tracks nothing and main goes on to
\* the next step, and syncthing_running then returns false with nothing
\* tracked, and the application does not exit.
DetectionFailureMeansNotFound ==
    /\ prev = "new_failed" /\ main_pc = "autostart"
         => syncthing_process = None /\ ~exited
    /\ last.op = "syncthing_running" /\ last.qfail
         => last.ret = "false" /\ syncthing_process = None /\ ~exited

\* Nothing was tracked, the query of syncthing_running failed while the
\* configured executable was running, and it returned false.
FailedQueryHidRunningProcess ==
    /\ last.op = "syncthing_running"
    /\ last.qfail
    /\ last.pre = None
    /\ last.ret = "false"
    /\ syncthing_process = None
    /\ Matching(procs) # {}

\* C26: when the daemon cannot be started, start_syncthing returns the error,
\* nothing is tracked afterwards and no Started event goes onto the channel
\* (the check that ran first may have reported a dead handle it cleared).
FailedStartTracksNothing ==
    [][(CallStep("start_syncthing") /\ last'.ret = "Err") =>
         /\ syncthing_process' = None
         /\ chan' \in {chan, Append(chan, "StateChanged")}]_vars

\* start_syncthing returned an error without having spawned anything.
SpawnFailedNothingTracked ==
    /\ last.op = "start_syncthing"
    /\ last.ret = "Err"
    /\ last.spawned = {}
    /\ syncthing_process = None

\* detect_process has returned and its result was put into the slot.
Detected == last.op = "attach_detected"

\* The slot holds a handle that detect_process built for a process the
\* process table listed with the configured path (in any case).
DetectedExternal ==
    /\ last.ret = "Ok"
    /\ IsExternal(syncthing_process)
    /\ Unwrap(syncthing_process).child = None
    /\ IsSome(Unwrap(syncthing_process).pid)
    /\ Unwrap(Unwrap(syncthing_process).pid) \in Matching(seen)

\* C27: a detection that can list the processes returns None when no
\* running process has the configured path, and a handle that is External
\* (not started by the application, no child) with the pid of such a
\* process when one is running; a detection that cannot list them returns
\* the error of the listing and no handle.
DetectionFindsForeignProcess ==
    /\ (Detected /\ ~last.qfail /\ Matching(seen) = {}) =>
         (last.ret = "Ok" /\ syncthing_process = last.pre)
    /\ (Detected /\ ~last.qfail /\ Matching(seen) # {}) => DetectedExternal
    /\ (Detected /\ last.qfail) =>
         (last.ret = "Err" /\ syncthing_process = last.pre)

\* A foreign instance of the configured executable was running, the query
\* worked, and the slot holds the External handle detection built for it.
ForeignProcessDetected ==
    /\ Detected
    /\ ~last.qfail
    /\ last.pre = None
    /\ DetectedExternal
    /\ seen[Unwrap(Unwrap(syncthing_process).pid)] = UpperPath

\* C28: detection hands out a handle only for a process whose path is the
\* configured path compared in full and without case, never for one that
\* shares only the base name.
DetectionNeedsStrongMatch ==
    (Detected /\ IsSome(syncthing_process) /\ syncthing_process # last.pre) =>
      /\ IsSome(Unwrap(syncthing_process).pid)
      /\ to_lowercase(seen[Unwrap(Unwrap(syncthing_process).pid)])
           = to_lowercase(ConfigPath)
      /\ seen[Unwrap(Unwrap(syncthing_process).pid)] # AltPath

\* A process with the same base name and another path was listed before
\* the one with the configured path, and detection returned the latter.
WeakMatchPassedOver ==
    /\ Detected
    /\ last.pre = None
    /\ IsSome(syncthing_process)
    /\ \E p \in Pids :
         /\ seen[p] = AltPath
         /\ p < Unwrap(Unwrap(syncthing_process).pid)

\* C29: the consumer loop ends in the Disconnected arm only, that is when
\* nothing is buffered and no sender is left, and it does end then; a step
\* that handles an event or a timeout goes on to render or to receive
\* again, and an ended loop stays ended.
LoopEndsOnlyOnDisconnect ==
    [][/\ (cpc' = "ended" /\ cpc # "ended") =>
            /\ cpc = "recv"
            /\ chan = <<>>
            /\ ~process_state_sender
            /\ handled' = "Disconnected"
       /\ (cpc = "recv" /\ handled' \in Events \cup {"Timeout"}) =>
            cpc' \in {"recv", "render"}
       /\ (cpc = "recv" /\ cpc' # cpc /\ chan = <<>> /\ ~process_state_sender) =>
            cpc' = "ended"
       /\ cpc = "ended" => cpc' = "ended"]_vars

\* The consumer thread found its channel disconnected and left the loop.
LoopEndedOnDisconnect ==
    /\ cpc = "ended"
    /\ handled = "Disconnected"
    /\ ~process_state_sender
    /\ chan = <<>>

\* The file f is an object without the two newer fields.
LacksNewFields(f) ==
    /\ f.kind = "object"
    /\ "process_closure_behavior" \notin DOMAIN f.obj
    /\ "auto_launch_internal" \notin DOMAIN f.obj

\* Every Config field the file f gives a value (null is none) has its type.
WellTyped(f) ==
    \A k \in DOMAIN f.obj \cap Fields : f.obj[k].t \in {FieldType(k), "null"}

\* C30: loading a file that lacks process_closure_behavior and
\* auto_launch_internal succeeds when the values it gives are of their
\* fields' types and the file can be written (and only then); the Config it
\* yields has CloseManaged and false for the two, the file's value for each
\* field the file gives a value, and the file is rewritten as that Config,
\* with all six fields.
MissingFieldsFilledIn ==
    LacksNewFields(loaded.from) /\ loaded.res # "none" =>
      /\ loaded.res = "Ok" <=> (loaded.writable /\ WellTyped(loaded.from))
      /\ loaded.res = "Ok" =>
           /\ Unwrap(loaded.config).process_closure_behavior = "CloseManaged"
           /\ Unwrap(loaded.config).auto_launch_internal = FALSE
           /\ \A k \in Given(loaded.from) \cap Fields :
                to_value(Unwrap(loaded.config))[k] = loaded.from.obj[k]
           /\ config_file = JObject(to_value(Unwrap(loaded.config)))
           /\ DOMAIN config_file.obj = Fields
           /\ config_file.obj["process_closure_behavior"] = JStr("close_managed")
           /\ config_file.obj["auto_launch_internal"] = JBool(FALSE)

\* A file with the four older fields and without the two newer ones was
\* loaded and rewritten.
OlderFileLoaded ==
    /\ loaded.res = "Ok"
    /\ LacksNewFields(loaded.from)
    /\ Given(loaded.from) = Fields \ {"process_closure_behavior", "auto_launch_internal"}
    /\ Unwrap(loaded.config).log_level = "debug"
    /\ Unwrap(loaded.config).startup_args = <<"--test">>
    /\ config_file # loaded.from

\* C31: when its check syncthing_running() says true, start_syncthing spawns
\* nothing, returns Ok, sends no Started, and leaves the tracked handle as
\* the check left it: the handle that was tracked, or the External handle
\* of a live process with the configured path the check has just attached
\* (announced by one StateChanged).
StartIsNoOpWhenRunning ==
    [][(CallStep("start_syncthing") /\ last'.said = "true") =>
         /\ last'.ret = "Ok"
         /\ last'.spawned = {}
         /\ procs' = procs
         /\ IsSome(syncthing_process) =>
              (syncthing_process' = syncthing_process /\ chan' = chan)
         /\ syncthing_process = None =>
              /\ IsExternal(syncthing_process')
              /\ Unwrap(Unwrap(syncthing_process').pid) \in Matching(procs)
              /\ chan' = Append(chan, "StateChanged")]_vars

\* start_syncthing found a foreign instance running, attached it and
\* returned Ok without spawning.
StartFoundExternal ==
    /\ last.op = "start_syncthing"
    /\ last.said = "true"
    /\ last.ret = "Ok"
    /\ last.pre = None
    /\ last.spawned = {}
    /\ IsExternal(syncthing_process)

\* check_and_autostart_syncthing has returned to main.
Autostarted == last.op = "check_and_autostart_syncthing"

\* The daemon the call spawned runs and is tracked as started by the app.
SpawnedAndTracked ==
    /\ last.spawned # {}
    /\ IsSome(syncthing_process)
    /\ Unwrap(syncthing_process).started_by_app
    /\ Unwrap(Unwrap(syncthing_process).pid) \in last.spawned

\* C32: with auto_launch_internal false check_and_autostart_syncthing asks
\* the process table nothing, spawns and kills nothing, sends nothing and
\* leaves the tracked handle as it was.  With auto_launch_internal true it
\* checks syncthing_running(); when that says true (one query) nothing is
\* started, and when it says false start_syncthing is entered (its own
\* check is the second query) and the daemon is spawned and tracked unless
\* that check finds an instance or the start fails.  A daemon is spawned
\* only on that last path.
AutostartOnlyWhenConfigured ==
    /\ (Autostarted /\ prev = "no_auto_launch") =>
         /\ last.asked = 0
         /\ last.spawned = {}
         /\ last.kills = {}
         /\ last.sent = 0
         /\ last.ret = "Ok"
         /\ syncthing_process = last.pre
    /\ (Autostarted /\ prev = "auto_launch") =>
         /\ last.asked \in {1, 2}
         /\ last.asked = 1 => (last.said = "true" /\ last.spawned = {} /\ last.ret = "Ok")
         /\ (last.asked = 2 /\ last.said = "true") => (last.spawned = {} /\ last.ret = "Ok")
         /\ (last.asked = 2 /\ last.said = "false" /\ last.ret = "Ok") => SpawnedAndTracked
    /\ (Autostarted /\ last.spawned # {}) =>
         (prev = "auto_launch" /\ last.asked = 2 /\ last.said = "false")

\* Auto-launch was configured, nothing ran, and the daemon was started.
AutostartSpawned ==
    /\ Autostarted
    /\ prev = "auto_launch"
    /\ last.pre = None
    /\ SpawnedAndTracked

\* Nothing is in flight: the sender is registered, the consumer waits in
\* recv_timeout with nothing buffered, and no thread holds or runs an
\* AppState operation.
Quiescent ==
    /\ ~exited
    /\ process_state_sender
    /\ cpc = "recv"
    /\ chan = <<>>
    /\ lock = Free
    /\ \A t \in Callers : pc[t] = "idle"

\* C33: whenever nothing is in flight, the status the consumer rendered
\* last is Running exactly when AppState tracks a process.
QuiescentConsistency ==
    Quiescent => (tray_state = "Running" <=> IsSome(syncthing_process))

\* An exit callback has cleared the handle of the process that exited, its
\* event was received and rendered, and nothing is in flight.
ExitRenderedAtRest ==
    /\ Quiescent
    /\ prev = "callback_saw_exit"
    /\ syncthing_process = None
    /\ tray_state = "Stopped"
    /\ last_state = "Stopped"

\* The threads that take a mutex.
Threads == Callers \cup {"consumer", "main"}

\* The thread th is at a lock() of the AppState mutex.
WaitsForState(th) ==
    \/ th = "consumer" /\ cpc \in {"init", "want_state"}
    \/ th \in Callers /\ pc[th] = "idle"

\* The thread th is at a lock() of the TrayUi mutex.
WaitsForTray(th) ==
    \/ th = "consumer" /\ cpc = "render"
    \/ th = "main" /\ main_pc = "setup"

\* C34: no thread holds both mutexes, and none is at the lock() of one
\* while it holds the other; whoever holds a mutex can take the step that
\* drops it, so no thread waits for ever on a holder that waits itself.
LocksNeverNested ==
    ~exited =>
      /\ \A th \in Threads :
            /\ ~(lock = th /\ (tray_lock = th \/ WaitsForTray(th)))
            /\ ~(tray_lock = th /\ WaitsForState(th))
      /\ lock = "consumer" => ENABLED ConsumerReadsState
      /\ tray_lock = "consumer" => ENABLED ConsumerRendered
      /\ tray_lock = "main" => ENABLED MainSetupDone
      /\ \A t \in Callers : lock = t => ENABLED (RunPoll(t) \/ Release(t))

\* Both mutexes are held, by different threads, while the other caller is
\* at its lock().
BothLocksHeld ==
    /\ tray_lock = "consumer"
    /\ lock \in Callers
    /\ \E t \in Callers : t # lock /\ pc[t] = "idle"

\* The live daemons the application spawned: only its own spawns run the
\* configured path as it is spelled in the configuration.
OwnDaemons(t) == {p \in Live(t) : t[p] = ConfigPath}

\* C35: start_syncthing spawns nothing while a process with the configured
\* path is alive, and at most one daemon spawned by the application runs at
\* any time.
NoSecondInstance ==
    [][/\ (CallStep("start_syncthing") /\ Matching(procs) # {}) => last'.spawned = {}
       /\ Cardinality(OwnDaemons(procs')) <= 1]_vars

\* start_syncthing spawned a daemon while an instance that was already
\* running is still alive.
SpawnedBesideLiveInstance ==
    /\ last.op = "start_syncthing"
    /\ last.ret = "Ok"
    /\ \E p \in Matching(procs), n \in last.spawned : p < n /\ procs[n] = ConfigPath

\* C36: a poll drops the tracked handle only when the handle's process has
\* exited; a live tracked process stays tracked, also when the liveness
\* check cannot be made.
PollDropsOnlyTheDead ==
    [][(CallStep("syncthing_running") /\ IsSome(syncthing_process)
          /\ IsSome(Unwrap(syncthing_process).pid)
          /\ Unwrap(Unwrap(syncthing_process).pid) \in Live(procs))
        => IsSome(syncthing_process')]_vars

\* A poll whose query failed dropped the handle of a process that is alive.
PollDroppedLiveProcess ==
    /\ last.op = "syncthing_running"
    /\ IsSome(last.pre)
    /\ syncthing_process = None
    /\ last.qfail
    /\ last.ret = "false"
    /\ last.sent = 1
    /\ IsSome(Unwrap(last.pre).pid)
    /\ Unwrap(Unwrap(last.pre).pid) \in Live(procs)

\* C37: when start_syncthing returns an error, no process it spawned is left
\* running: a child spawned before a later step failed has been terminated.
FailedStartLeavesNoChild ==
    [][(CallStep("start_syncthing") /\ last'.ret = "Err")
        => last'.spawned \cap Live(procs') = {}]_vars

\* start_syncthing returned an error, tracks nothing, and the child it
\* spawned is still running.
FailedStartLeftOrphan ==
    /\ last.op = "start_syncthing"
    /\ last.ret = "Err"
    /\ syncthing_process = None
    /\ \E n \in last.spawned : n \in Live(procs) /\ procs[n] = ConfigPath

\* C38: an exit callback for another pid than the tracked handle's never
\* clears a handle the application started and sends nothing for it; it
\* clears a detected handle only when its own detection could look and found
\* no process at the configured path.
OtherPidClearsOnlyAbsentExternal ==
    [][(/\ CallStep("handle_process_exit")
        /\ IsSome(syncthing_process)
        /\ Unwrap(syncthing_process).pid # Some(last'.arg))
       => /\ Unwrap(syncthing_process).started_by_app
               => syncthing_process' = syncthing_process /\ chan' = chan
          /\ (~Unwrap(syncthing_process).started_by_app
                /\ syncthing_process' # syncthing_process)
               => /\ syncthing_process' = None
                  /\ ~last'.qfail
                  /\ Matching(procs) = {}]_vars

\* A callback for another pid cleared a detected handle whose process is no
\* longer there.
OtherPidClearedExternal ==
    /\ last.op = "handle_process_exit"
    /\ IsSome(last.pre)
    /\ ~Unwrap(last.pre).started_by_app
    /\ Unwrap(last.pre).pid # Some(last.arg)
    /\ syncthing_process = None
    /\ last.sent = 1
    /\ ~last.qfail

\* C39: normalize_exe_name returns the name without its last four characters
\* when these are ".exe" in any mix of upper and lower case, and returns
\* every other name as it is.
NormalizeStripsOneExeSuffix ==
    IsSome(normalized) =>
        LET r == Unwrap(normalized)
            n == Len(exe_name)
            suffixed == /\ n >= 4
                        /\ \A i \in 1..4 :
                              to_ascii_lowercase(exe_name[n - 4 + i]) = DotExe[i]
        IN  /\ ~r.panic
            /\ r.val = IF suffixed THEN SubSeq(exe_name, 1, n - 4) ELSE exe_name

\* The call panicked on a name of five bytes that does not end in ".exe".
NormalizePanicked ==
    /\ IsSome(normalized)
    /\ Unwrap(normalized).panic
    /\ exe_name = <<"e-acute", "e", "x", "e">>

\* C40: check_missing_fields answers true for every object that lacks a
\* field of Config, so that loading such a file whose values have their
\* fields' types succeeds (the file being writable) and leaves a file with
\* all the fields.
EveryMissingFieldIsFilledIn ==
    (/\ loaded.res # "none"
     /\ loaded.from.kind = "object"
     /\ Fields \ DOMAIN loaded.from.obj # {})
    => /\ check_missing_fields(loaded.from)
       /\ (/\ loaded.writable
            /\ \A k \in Given(loaded.from) \cap Fields : Readable(loaded.from.obj, k))
            => loaded.res = "Ok" /\ DOMAIN config_file.obj = Fields

\* Loading a writable file that has the two newer fields and every older
\* one but log_level, each with a value of its type, failed.
OlderFieldMissingFailed ==
    /\ loaded.res = "Err"
    /\ loaded.writable
    /\ loaded.from.kind = "object"
    /\ Fields \ DOMAIN loaded.from.obj = {"log_level"}
    /\ \A k \in DOMAIN loaded.from.obj \cap Fields : Readable(loaded.from.obj, k)
    /\ ~check_missing_fields(loaded.from)
    /\ config_file = loaded.from

====
